---------------------------- MODULE Spec2Model ----------------------------
(***************************************************************************)
(* State-machine model of the trading safety engine:                       *)
(*   core/exchange.py     SafeExchange (gateway, retry/backoff, tickers)   *)
(*   core/execution.py    execute_atomic_entry (entry + stop + unwind)     *)
(*   core/safety.py       ghost_synchronizer (reconciliation)              *)
(*   strategy/manager.py  PositionManager (trailing stop, TP timeout)      *)
(*   core/calculator.py   floor_to_step, calculate_position_size           *)
(*   core/risk_manager.py DynamicRiskManager (leverage, margin mode)       *)
(*   main.py              trading_loop                                     *)
(*                                                                         *)
(* Quantities are whole numbers of lot steps and prices whole numbers of   *)
(* price units; percentages are whole percents.  Every remote call is one  *)
(* step whose outcome the exchange chooses.  Each component has its own    *)
(* specification (SpecRetry, SpecCreate, SpecTicker, SpecEntry, SpecSync,  *)
(* SpecPM, SpecFloor, SpecSize, SpecRisk, SpecLoop, SpecReentry,           *)
(* SpecTimer, SpecMarkets, SpecReopen, SpecRace, SpecTwice) over the       *)
(* shared variables; a component that a                                    *)
(* specification does not run stays idle.                                  *)
(***************************************************************************)
EXTENDS Integers, Sequences, FiniteSets, TLC

VARIABLES
    positions,  \* exchange: symbol -> [contracts, side, entryPrice]
    orders,     \* exchange: sequence of order records, oldest first
    nextId,     \* exchange: id the next accepted order gets
    markets,    \* SafeExchange._markets_cache: symbol -> tick size
    retry,      \* SafeExchange._retry_async: locals of the call in progress
    entry,      \* execute_atomic_entry: locals, position in the code, log
    sync,       \* ghost_synchronizer: locals, result counters, log
    pm,         \* PositionManager: tracker, cycle locals, clock, log
    calc,       \* core/calculator.py, core/risk_manager.py: arguments and result of a call
    loop,       \* main.py trading_loop: position in the iteration, locals, log
    gateway     \* SafeExchange: connection, clock, _last_markets_load, reads

vars == <<positions, orders, nextId, markets, retry, entry, sync, pm, calc, loop, gateway>>

exVars == <<positions, orders, nextId, markets>>

-----------------------------------------------------------------------------
(* Bounds of the model (not program constants).                            *)

MaxQty == 2          \* largest order quantity requested, in lot steps

-----------------------------------------------------------------------------
(* Program constants.                                                      *)

MAX_RETRIES == 5         \* exchange.py:27
RETRY_BASE_DELAY == 1    \* exchange.py:28
RETRY_MAX_DELAY == 30    \* exchange.py:29

-----------------------------------------------------------------------------
(* Small helpers.                                                          *)

Abs(x) == IF x < 0 THEN -x ELSE x

Min(a, b) == IF a < b THEN a ELSE b

RECURSIVE Pow2(_)
Pow2(n) == IF n = 0 THEN 1 ELSE 2 * Pow2(n - 1)

Idle == [pc |-> "idle"]

Symbols == {"BTC", "ETH"}

\* A symbol without exposure, as the exchange reports it.
Flat == [contracts |-> 0, side |-> "", entryPrice |-> 0]

NoPositions == [s \in Symbols |-> Flat]

-----------------------------------------------------------------------------
(* SafeExchange._retry_async, exchange.py:165-193.                         *)
(* One step per attempt of the wrapped operation; the exchange (or the     *)
(* network) chooses what the attempt does.                                 *)

\* The ccxt error classes the except clauses tell apart, and anything else.
TransientErrorsAndRejections == {"NetworkError", "ExchangeNotAvailable", "ExchangeError"}

TransientErrors == {"NetworkError", "ExchangeNotAvailable"}

AttemptOutcomes == {"ok", "ExchangeError", "OtherError"} \cup TransientErrors

\* delay = min(RETRY_BASE_DELAY * (2 ** attempt), RETRY_MAX_DELAY)
RetryDelay(attempt) == Min(RETRY_BASE_DELAY * Pow2(attempt), RETRY_MAX_DELAY)

\* for attempt in range(MAX_RETRIES): the loop variable after a retried failure
RetryNextAttemptStuck(attempt) == attempt

RetryNextAttempt(attempt) == attempt + 1

\* raise ExchangeError(f"All {MAX_RETRIES} retries failed: {last_exception}")
RetryExhaustedError(r) ==
    [kind |-> "ExchangeError", text |-> "All retries failed",
     cause |-> r.last_exception]

\* last_exception = None; an exception is <<class, attempt it came from>>.
NoException == <<"None", 0>>

RetryInit ==
    [pc |-> "running", attempt |-> 0, last_exception |-> NoException,
     calls |-> 0, slept |-> 0, causes |-> <<>>,
     error |-> [kind |-> "None", text |-> "", cause |-> NoException]]

\* One pass through the loop body: the try, and the except clause it lands in.
RetryAttempt ==
    /\ retry.pc = "running"
    /\ retry.attempt < MAX_RETRIES
    /\ \E out \in AttemptOutcomes :
         LET called == [retry EXCEPT !.calls = @ + 1] IN
         retry' =
           CASE out = "ok" -> [called EXCEPT !.pc = "returned"]
             [] out \in TransientErrors ->
                  [called EXCEPT !.last_exception = <<out, retry.attempt>>,
                                 !.causes = Append(@, <<out, retry.attempt>>),
                                 !.slept = @ + RetryDelay(retry.attempt),
                                 !.attempt = RetryNextAttempt(@)]
             [] out = "ExchangeError" ->
                  [called EXCEPT !.pc = "raised",
                                 !.error = [kind |-> "ExchangeError",
                                            text |-> "Exchange error",
                                            cause |-> <<out, retry.attempt>>]]
             [] OTHER ->
                  [called EXCEPT !.pc = "raised",
                                 !.error = [kind |-> out, text |-> "",
                                            cause |-> <<out, retry.attempt>>]]
    /\ UNCHANGED <<exVars, calc, loop, entry, sync, pm, gateway>>

\* The statement after the loop.
RetryExhausted ==
    /\ retry.pc = "running"
    /\ retry.attempt >= MAX_RETRIES
    /\ retry' = [retry EXCEPT !.pc = "raised", !.error = RetryExhaustedError(retry)]
    /\ UNCHANGED <<exVars, calc, loop, entry, sync, pm, gateway>>

InitRetry ==
    /\ positions = NoPositions
    /\ orders = <<>>
    /\ nextId = 1
    /\ markets = [s \in Symbols |-> 1]
    /\ retry = RetryInit
    /\ entry = Idle
    /\ sync = Idle
    /\ pm = Idle
    /\ calc = Idle
    /\ loop = Idle
    /\ gateway = Idle

NextRetry == RetryAttempt \/ RetryExhausted

SpecRetry == InitRetry /\ [][NextRetry]_vars /\ WF_vars(NextRetry)

Last(q) == q[Len(q)]

RECURSIVE SleptFor(_)
SleptFor(q) == IF q = <<>> THEN 0 ELSE RetryDelay(Head(q)[2]) + SleptFor(Tail(q))

\* C11 witness: a call rejected by the exchange on its third attempt, after
\* two transient failures.
C11_Witness ==
    /\ retry.pc = "raised"
    /\ retry.error.cause = <<"ExchangeError", 2>>
    /\ Len(retry.causes) = 2
    /\ retry.calls = 3

\* C11: an attempt that the exchange rejects (ccxt.ExchangeError) is never
\* among the retried failures; the call raises the gateway's ExchangeError
\* at once, after exactly one attempt more than the transient failures before
\* it and without sleeping again, however many transient failures came first.
C11_RejectionNotRetried ==
    /\ \A i \in 1..Len(retry.causes) :
         retry.causes[i][1] \in {"NetworkError", "ExchangeNotAvailable"}
    /\ (retry.pc = "raised" /\ retry.error.cause[1] = "ExchangeError") =>
         /\ retry.error.kind = "ExchangeError"
         /\ retry.error.text = "Exchange error"
         /\ retry.error.cause[2] = Len(retry.causes)
         /\ retry.calls = Len(retry.causes) + 1
         /\ retry.slept = SleptFor(retry.causes)

-----------------------------------------------------------------------------
(* The exchange behind the gateway.  A create_* call either is applied and *)
(* returns ("ok"), is not applied and raises ("fail"), or is applied while *)
(* every response is lost, so that the call raises all the same ("lost").  *)

NoneVal == -1            \* Python's None, where the code tests for it

CreateOutcomes == {"ok", "fail", "lost"}

CallOutcomes == {"ok", "fail"}

Applied(out) == out \in {"ok", "lost"}

OpenOrders == SelectSeq(orders, LAMBDA o : o.status = "open")

\* The order a create call puts on the book (params: stopPrice, type,
\* reduceOnly = True), exchange.py:438-450 and 482-494.
NewOrder(id, symbol, type, side, amount, stop_price) ==
    [id |-> id, symbol |-> symbol, type |-> type, side |-> side,
     amount |-> amount, stopPrice |-> stop_price, status |-> "open"]

\* SafeExchange.create_stop_market_order / create_take_profit_order.
\* "rejected": the call returns the order, and the exchange drops it at once
\* (status expired), which only a re-fetch of the order shows.
CreateTriggerOrder(out, symbol, type, side, amount, stop_price) ==
    IF Applied(out) \/ out = "rejected"
    THEN /\ orders' = Append(orders,
                [NewOrder(nextId, symbol, type, side, amount, stop_price)
                    EXCEPT !.status = IF out = "rejected" THEN "expired" ELSE "open"])
         /\ nextId' = nextId + 1
    ELSE UNCHANGED <<orders, nextId>>

\* SafeExchange.cancel_order.
CancelOrder(out, order_id) ==
    IF out = "ok"
    THEN orders' = SelectSeq(orders, LAMBDA o : o.id # order_id)
    ELSE UNCHANGED orders

Signed(side, qty) == IF side = "buy" THEN qty ELSE -qty

\* What a reduce-only market order can execute: nothing unless it is against
\* the position, and never more than the position.
ReduceOnlyQty(pos, side, amount) ==
    IF Signed(side, 1) * pos.contracts < 0 THEN Min(amount, Abs(pos.contracts)) ELSE 0

\* The position after a market order of `filled` lots on `side` at `price`.
ApplyFill(pos, side, filled, price) ==
    LET c == pos.contracts + Signed(side, filled) IN
    IF c = 0 THEN Flat
    ELSE [contracts |-> c,
          side |-> IF c > 0 THEN "long" ELSE "short",
          entryPrice |-> IF pos.contracts * c <= 0 THEN price ELSE pos.entryPrice]

\* calculator.floor_price_to_tick: floor(price / tick_size) * tick_size, for
\* the price num/den (a price times a percentage is not a whole number).
FloorPriceToTick(num, den, tick_size) == (num \div (den * tick_size)) * tick_size

\* exchange.get_market_info, calculator.get_tick_size and the tick_size <= 0
\* test of floor_price_to_tick: what the lookup of a usable tick size raises.
TickLookupError(symbol) ==
    IF symbol \notin DOMAIN markets THEN "ExchangeError"
    ELSE IF markets[symbol] <= 0 THEN "CalculatorError"
    ELSE "None"

-----------------------------------------------------------------------------
(* core/execution.py: execute_atomic_entry, execution.py:251-449, with     *)
(* check_spread, place_stop_loss, place_take_profit and                    *)
(* emergency_close_position.  One step per remote call.                    *)

MAX_SL_RETRIES == 5           \* execution.py:36
MAX_TP_RETRIES == 3           \* execution.py:39
MAX_SPREAD_PER_MILLE == 1     \* execution.py:33, MAX_SPREAD_RATIO = 0.001

BasePx == 10                  \* price level the modelled entries trade at
MaxTick == 2                  \* largest tick size in the symbol metadata

EntrySymbol == "BTC"

IsLong(side) == side = "buy"

OppositeSide(is_long) == IF is_long THEN "sell" ELSE "buy"

\* Tickers fetch_ticker may deliver: bid/ask/last present or None.
Tickers ==
    [bid : {NoneVal, 0, 998, 999}, ask : {NoneVal, 1000}, last : {NoneVal, 1000}]

CheckSpreadTwiceTheCeiling(ticker) ==
    IF ticker.bid = NoneVal \/ ticker.ask = NoneVal
    THEN IF ticker.last = NoneVal THEN "ExecutionError" ELSE "ok"
    ELSE IF ticker.bid <= 0 \/ ticker.ask <= 0 THEN "ExecutionError"
    ELSE IF (ticker.ask - ticker.bid) * 1000 > 2 * MAX_SPREAD_PER_MILLE * ticker.ask
         THEN "SpreadTooWideError"
    ELSE "ok"

\* check_spread, execution.py:72-104: "ok", or the error it raises.
CheckSpread(ticker) ==
    IF ticker.bid = NoneVal \/ ticker.ask = NoneVal
    THEN IF ticker.last = NoneVal THEN "ExecutionError" ELSE "ok"
    ELSE IF ticker.bid <= 0 \/ ticker.ask <= 0 THEN "ExecutionError"
    ELSE IF (ticker.ask - ticker.bid) * 1000 > MAX_SPREAD_PER_MILLE * ticker.ask
         THEN "SpreadTooWideError"
    ELSE "ok"

Signals ==
    [side : {"buy", "sell"}, quantity : 1..MaxQty, takeprofit : BOOLEAN]

EntryInit(sig) ==
    [pc |-> "start", symbol |-> EntrySymbol, side |-> sig.side,
     quantity |-> sig.quantity,
     stoploss_price |-> IF IsLong(sig.side) THEN BasePx - 3 ELSE BasePx + 3,
     takeprofit_price |-> IF ~sig.takeprofit THEN NoneVal
                          ELSE IF IsLong(sig.side) THEN BasePx + 3 ELSE BasePx - 3,
     entry_order |-> NoneVal, fill |-> 0, executed_qty |-> 0,
     stop_loss_order |-> NoneVal, take_profit_order |-> NoneVal,
     success |-> FALSE, error |-> "None", attempt |-> 0, closed |-> FALSE,
     ticker |-> <<>>, sent |-> <<>>]

Sent(call, side, amount, price, out) ==
    [call |-> call, side |-> side, amount |-> amount, price |-> price, out |-> out]

EntryRaise(e, err) == [e EXCEPT !.pc = "raised", !.error = err]

\* Lines 300-331: the market lookup, then step 0 (margin mode and leverage:
\* both failures are swallowed, neither changes an order or a position).
EntryStart ==
    /\ entry.pc = "start"
    /\ \E margin \in CallOutcomes, lev \in CallOutcomes :
         entry' = IF entry.symbol \notin DOMAIN markets
                  THEN EntryRaise(entry, "ExchangeError")
                  ELSE [entry EXCEPT !.pc = "spread"]
    /\ UNCHANGED <<exVars, calc, loop, retry, sync, pm, gateway>>

\* Lines 333-339: check_spread; whatever it raises leaves the function.
\* entry.ticker holds the ticker check_spread looked at (<<>> when none);
\* its return value is dropped, so the ticker is gone once step 2 starts.
EntryCheckSpread ==
    /\ entry.pc = "spread"
    /\ \/ \E err \in {"ExchangeError", "StaleDataError"} :
            entry' = EntryRaise(entry, err)
       \/ \E ticker \in Tickers :
            entry' = IF CheckSpread(ticker) = "ok"
                     THEN [entry EXCEPT !.pc = "market", !.ticker = <<ticker>>]
                     ELSE EntryRaise([entry EXCEPT !.ticker = <<ticker>>], CheckSpread(ticker))
    /\ UNCHANGED <<exVars, calc, loop, retry, sync, pm, gateway>>

\* Lines 341-366 up to the fetch: create_market_order and the reading of
\* 'filled' from its response.  The exchange fills `fill` of the quantity;
\* the immediate response shows it or still shows 0.
EntryMarketOrder ==
    /\ entry.pc = "market"
    /\ \E out \in CreateOutcomes, fill \in 0..entry.quantity, shown \in BOOLEAN :
         LET f == IF Applied(out) THEN fill ELSE 0
             e == [entry EXCEPT !.fill = f, !.ticker = <<>>,
                                !.sent = Append(@, Sent("market", entry.side, entry.quantity, 0, out))]
         IN
         /\ positions' = [positions EXCEPT ![entry.symbol] = ApplyFill(@, entry.side, f, BasePx)]
         /\ nextId' = IF Applied(out) THEN nextId + 1 ELSE nextId
         /\ entry' =
              IF out # "ok" THEN EntryRaise(e, "ExecutionError")
              ELSE LET q == IF shown THEN f ELSE 0 IN
                   [e EXCEPT !.entry_order = nextId, !.executed_qty = q,
                             !.pc = IF q = 0 THEN "verify" ELSE "stop"]
    /\ UNCHANGED <<orders, markets, calc, loop, retry, sync, pm, gateway>>

NothingExecutedNever(executed_qty) == FALSE

\* Line 375: if executed_qty == 0
NothingExecuted(executed_qty) == executed_qty = 0

\* Lines 362-378: executed_qty == 0, so the order is fetched once; a fill
\* that still reads 0 ends the sequence with success.
EntryVerifyFill ==
    /\ entry.pc = "verify"
    /\ \E out \in CallOutcomes :
         LET e == [entry EXCEPT !.sent = Append(@, Sent("fetch_order", "", 0, 0, out))]
         IN
         entry' =
           IF out = "fail" THEN EntryRaise(e, "ExchangeError")
           ELSE IF NothingExecuted(entry.fill)
                THEN [e EXCEPT !.pc = "returned", !.success = TRUE]
                ELSE [e EXCEPT !.pc = "stop", !.executed_qty = entry.fill]
    /\ UNCHANGED <<exVars, calc, loop, retry, sync, pm, gateway>>

\* place_stop_loss: the amount the stop is placed for.
StopAmountRequested(e) == e.quantity

StopAmount(e) == e.executed_qty

\* Lines 384-395 and place_stop_loss, 173-195: the tick lookup (outside any
\* try), then one attempt of the loop per step.
EntryPlaceStop ==
    /\ entry.pc = "stop"
    /\ IF TickLookupError(entry.symbol) # "None"
       THEN /\ entry' = EntryRaise(entry, TickLookupError(entry.symbol))
            /\ UNCHANGED <<orders, nextId>>
       ELSE \E out \in CreateOutcomes :
              LET sl_side == OppositeSide(IsLong(entry.side))
                  px == FloorPriceToTick(entry.stoploss_price, 1, markets[entry.symbol])
                  e == [entry EXCEPT !.sent = Append(@, Sent("stop", sl_side, StopAmount(entry), px, out))]
              IN
              /\ CreateTriggerOrder(out, entry.symbol, "STOP_MARKET", sl_side, StopAmount(entry), px)
              /\ entry' =
                   IF out = "ok"
                   THEN [e EXCEPT !.stop_loss_order = nextId, !.success = TRUE, !.attempt = 0,
                                  !.pc = IF e.takeprofit_price # NoneVal /\ e.takeprofit_price > 0
                                         THEN "tp" ELSE "returned"]
                   ELSE IF entry.attempt + 1 < MAX_SL_RETRIES
                        THEN [e EXCEPT !.attempt = @ + 1]
                        ELSE [e EXCEPT !.attempt = 0, !.pc = "close"]
    /\ UNCHANGED <<positions, markets, calc, loop, retry, sync, pm, gateway>>

\* Lines 398-411 and place_take_profit, 223-248: best effort.
TakeProfitGivenUpUnwinds(e) == [e EXCEPT !.attempt = 0, !.pc = "close"]

\* place_take_profit, lines 245-248, and execute_atomic_entry, lines 414-422:
\* after the last failed attempt None is returned, which is only logged.
TakeProfitGivenUp(e) == [e EXCEPT !.attempt = 0, !.pc = "returned"]

EntryPlaceTakeProfit ==
    /\ entry.pc = "tp"
    /\ \E out \in CreateOutcomes :
         LET tp_side == OppositeSide(IsLong(entry.side))
             px == FloorPriceToTick(entry.takeprofit_price, 1, markets[entry.symbol])
             e == [entry EXCEPT !.sent = Append(@, Sent("tp", tp_side, entry.executed_qty, px, out))]
         IN
         /\ CreateTriggerOrder(out, entry.symbol, "TAKE_PROFIT_MARKET", tp_side, entry.executed_qty, px)
         /\ entry' =
              IF out = "ok"
              THEN [e EXCEPT !.take_profit_order = nextId, !.attempt = 0, !.pc = "returned"]
              ELSE IF entry.attempt + 1 < MAX_TP_RETRIES
                   THEN [e EXCEPT !.attempt = @ + 1]
                   ELSE TakeProfitGivenUp(e)
    /\ UNCHANGED <<positions, markets, calc, loop, retry, sync, pm, gateway>>

\* emergency_close_position(amount=executed_qty): the amount of each close.
CloseAmountRequested(e) == e.quantity

CloseAmount(e) == e.executed_qty

\* Lines 423-447 and emergency_close_position, 133-145: close_position is a
\* reduce-only market order; after the loop the ExecutionError is raised
\* whether or not an attempt succeeded.
EntryEmergencyClose ==
    /\ entry.pc = "close"
    /\ \E o \in CreateOutcomes :
         LET close_side == OppositeSide(IsLong(entry.side))
             can == ReduceOnlyQty(positions[entry.symbol], close_side, CloseAmount(entry))
             out == IF can = 0 THEN "fail" ELSE o
             e == [entry EXCEPT !.sent = Append(@, Sent("close", close_side, CloseAmount(entry), 0, out))]
         IN
         /\ positions' = IF Applied(out)
                         THEN [positions EXCEPT ![entry.symbol] = ApplyFill(@, close_side, can, BasePx)]
                         ELSE positions
         /\ nextId' = IF Applied(out) THEN nextId + 1 ELSE nextId
         /\ entry' =
              IF out = "ok"
              THEN [e EXCEPT !.closed = TRUE, !.pc = "raised", !.error = "ExecutionError"]
              ELSE IF entry.attempt + 1 < MAX_SL_RETRIES
                   THEN [e EXCEPT !.attempt = @ + 1]
                   ELSE [e EXCEPT !.pc = "raised", !.error = "ExecutionError"]
    /\ UNCHANGED <<orders, markets, calc, loop, retry, sync, pm, gateway>>

InitEntry ==
    /\ positions = NoPositions
    /\ orders = <<>>
    /\ nextId = 1
    /\ \E syms \in {{}, {EntrySymbol}} : markets \in [syms -> 0..MaxTick]
    /\ retry = Idle
    /\ \E sig \in Signals : entry = EntryInit(sig)
    /\ sync = Idle
    /\ pm = Idle
    /\ calc = Idle
    /\ loop = Idle
    /\ gateway = Idle

NextEntry ==
    \/ EntryStart
    \/ EntryCheckSpread
    \/ EntryMarketOrder
    \/ EntryVerifyFill
    \/ EntryPlaceStop
    \/ EntryPlaceTakeProfit
    \/ EntryEmergencyClose

SpecEntry == InitEntry /\ [][NextEntry]_vars

-----------------------------------------------------------------------------
(* Claims about execute_atomic_entry (SpecEntry).                          *)

EntryDone == entry.pc \in {"returned", "raised"}

SentCalls(e, call) == {i \in 1..Len(e.sent) : e.sent[i].call = call}

\* Every stop-placement attempt was made and none returned an order.
AllStopAttemptsFailed ==
    /\ entry.stop_loss_order = NoneVal
    /\ Cardinality(SentCalls(entry, "stop")) = MAX_SL_RETRIES

\* An open stop order of the entered symbol, on the closing side.
EntryStops ==
    {i \in 1..Len(orders) :
        /\ orders[i].symbol = entry.symbol
        /\ orders[i].type = "STOP_MARKET"
        /\ orders[i].status = "open"
        /\ orders[i].side = OppositeSide(IsLong(entry.side))}

\* C1 witness: success after a partial fill, the stop sized to the fill.
C1_Witness ==
    /\ entry.pc = "returned" /\ entry.success
    /\ 0 < entry.fill /\ entry.fill < entry.quantity
    /\ \E i \in EntryStops : orders[i].amount = entry.fill

\* C1: when execute_atomic_entry returns success after a full or partial
\* fill (a filled quantity above zero), the stop order it reports is open on
\* the exchange, on the closing side, and its quantity is the quantity the
\* entry order actually filled; every stop it submitted was for that
\* quantity, whatever quantity was requested.
C1_StopQtyIsFilledQty ==
    (entry.pc = "returned" /\ entry.success /\ entry.fill > 0)
        => /\ entry.executed_qty = entry.fill
           /\ \E i \in EntryStops : /\ orders[i].id = entry.stop_loss_order
                                    /\ orders[i].amount = entry.fill
           /\ \A i \in EntryStops : orders[i].amount = entry.fill

C3_NeverEndsUnprotected ==
    (EntryDone /\ entry.entry_order # NoneVal /\ entry.fill > 0)
        => \/ entry.stop_loss_order # NoneVal
           \/ SentCalls(entry, "close") # {}

\* the ticker check_spread has looked at, if it has one in hand
SpreadChecked == entry.ticker # <<>>

CheckedTicker == entry.ticker[1]

\* (ask - bid) / ask > MAX_SPREAD_RATIO, for an ask above zero
SpreadExceedsCeiling(ticker) ==
    /\ ticker.bid # NoneVal /\ ticker.ask # NoneVal
    /\ ticker.ask > 0
    /\ (ticker.ask - ticker.bid) * 1000 > MAX_SPREAD_PER_MILLE * ticker.ask

NothingSubmitted ==
    /\ entry.sent = <<>>
    /\ orders = <<>>
    /\ positions[entry.symbol] = Flat

TakeProfitSends == SentCalls(entry, "tp")

EveryTakeProfitFailed ==
    /\ TakeProfitSends # {}
    /\ \A i \in TakeProfitSends : entry.sent[i].out # "ok"

C34_Witness ==
    /\ entry.pc = "returned"
    /\ entry.success
    /\ Cardinality(TakeProfitSends) = MAX_TP_RETRIES
    /\ EveryTakeProfitFailed
    /\ entry.take_profit_order = NoneVal
    /\ \E i \in EntryStops : orders[i].id = entry.stop_loss_order

\* C34: when the entry has ended after the stop order was placed and every
\* take-profit placement failed, it has returned with success after
\* MAX_TP_RETRIES placements, without a take-profit order in its result,
\* the stop order it placed is open, and it has sent no closing order and no
\* cancellation.
C34_TakeProfitFailureKeepsStop ==
    (EntryDone /\ EveryTakeProfitFailed) =>
        /\ entry.pc = "returned"
        /\ entry.success
        /\ Cardinality(TakeProfitSends) = MAX_TP_RETRIES
        /\ entry.take_profit_order = NoneVal
        /\ \E i \in EntryStops : orders[i].id = entry.stop_loss_order
        /\ SentCalls(entry, "close") = {}
        /\ SentCalls(entry, "cancel") = {}
        /\ ~entry.closed

\* C35: when the entry has ended, at most one stop order of the entered
\* symbol is open on the exchange.
C35_AtMostOneStop ==
    EntryDone => Cardinality(EntryStops) <= 1

C22_Witness ==
    /\ entry.pc = "returned" /\ entry.success
    /\ entry.entry_order # NoneVal
    /\ entry.executed_qty = 0
    /\ Cardinality(SentCalls(entry, "fetch_order")) = 1

\* C22: when the entry order's immediate response shows zero filled, the
\* order is polled exactly once (and not at all otherwise); if the poll also
\* shows zero, execute_atomic_entry returns success having submitted no
\* stop, no take-profit and no emergency close.
C22_ZeroFillPolledOnce ==
    LET polls == SentCalls(entry, "fetch_order") IN
    /\ Cardinality(polls) <= 1
    /\ entry.pc = "verify" => (polls = {} /\ entry.executed_qty = 0)
    /\ \A i \in polls :
         /\ i > 1 /\ entry.sent[i - 1].call = "market" /\ entry.sent[i - 1].out = "ok"
         /\ entry.pc # "verify"
    /\ (entry.pc \in {"stop", "tp", "close"} /\ polls = {}) => entry.executed_qty > 0
    /\ (EntryDone /\ polls # {} /\ entry.executed_qty = 0
           /\ \A i \in polls : entry.sent[i].out = "ok")
         => /\ entry.pc = "returned" /\ entry.success
            /\ SentCalls(entry, "stop") = {}
            /\ SentCalls(entry, "tp") = {}
            /\ SentCalls(entry, "close") = {}
            /\ entry.stop_loss_order = NoneVal /\ entry.take_profit_order = NoneVal

-----------------------------------------------------------------------------
(* SafeExchange.create_market_order / create_stop_market_order,            *)
(* exchange.py:331-368 and 411-453, attempt by attempt: the client order   *)
(* id is put into params before _retry_async, and every attempt sends the  *)
(* same params.  The exchange refuses a client order id it has accepted.   *)

MaxCalls == 2            \* create-order calls made one after the other

\* _generate_client_order_id: uuid4, taken as never repeating.
GenerateClientOrderId(r) == r.uuids + 1

\* What an attempt does: the request is applied and answered, applied with
\* the answer lost (a timeout), not delivered at all, or refused by a rule.
SubmitOutcomes == {"answered", "timeout_applied", "timeout_undelivered", "rejected"}

CreateCallInit ==
    [pc |-> "idle", call |-> 0, type |-> "", uuids |-> 0, client_id |-> NoneVal,
     attempt |-> 0, sent |-> <<>>, created |-> <<>>, ids |-> <<>>, error |-> "None"]

\* Lines 353-360 and 435-445: a new call, with a new id in its params.
CreateOrderCall ==
    /\ retry.pc \in {"idle", "returned", "raised"}
    /\ retry.call < MaxCalls
    /\ \E type \in {"market", "STOP_MARKET"} :
         retry' = [retry EXCEPT !.pc = "running", !.call = @ + 1, !.type = type,
                                !.uuids = GenerateClientOrderId(retry),
                                !.client_id = GenerateClientOrderId(retry),
                                !.ids = Append(@, GenerateClientOrderId(retry)),
                                !.attempt = 0, !.sent = <<>>, !.error = "None"]
    /\ UNCHANGED <<exVars, calc, loop, entry, sync, pm, gateway>>

\* The client order id an attempt carries: the one in params.
ClientIdOfAttemptRegenerated(r) == r.client_id + MaxCalls * (r.attempt + 1)

ClientIdOfAttempt(r) == r.client_id

\* Lines 362-365 and 447-450 with _retry_async: one attempt of create_order.
CreateOrderAttempt ==
    /\ retry.pc = "running"
    /\ retry.attempt < MAX_RETRIES
    /\ \E out \in SubmitOutcomes :
         LET id == ClientIdOfAttempt(retry)
             known == \E k \in 1..Len(retry.created) : retry.created[k] = id
             reaches == out \in {"answered", "timeout_applied"}
             accepted == reaches /\ ~known
             r == [retry EXCEPT !.sent = Append(@, id),
                                !.created = IF accepted THEN Append(@, id) ELSE @]
         IN
         /\ retry' =
              CASE out = "answered" /\ ~known -> [r EXCEPT !.pc = "returned"]
                [] out = "answered" /\ known ->
                     [r EXCEPT !.pc = "raised", !.error = "ExchangeError"]
                [] out = "rejected" ->
                     [r EXCEPT !.pc = "raised", !.error = "ExchangeError"]
                [] OTHER -> [r EXCEPT !.attempt = RetryNextAttempt(@)]
         /\ IF accepted /\ retry.type = "STOP_MARKET"
            THEN /\ orders' = Append(orders, NewOrder(nextId, EntrySymbol, "STOP_MARKET",
                                                      "sell", 1, BasePx - 1))
                 /\ nextId' = nextId + 1
                 /\ UNCHANGED positions
            ELSE IF accepted
            THEN /\ positions' = [positions EXCEPT ![EntrySymbol] = ApplyFill(@, "buy", 1, BasePx)]
                 /\ nextId' = nextId + 1
                 /\ UNCHANGED orders
            ELSE UNCHANGED <<positions, orders, nextId>>
    /\ UNCHANGED <<markets, calc, loop, entry, sync, pm, gateway>>

\* Line 193: the attempts are used up.
CreateOrderExhausted ==
    /\ retry.pc = "running"
    /\ retry.attempt >= MAX_RETRIES
    /\ retry' = [retry EXCEPT !.pc = "raised", !.error = "ExchangeError"]
    /\ UNCHANGED <<exVars, calc, loop, entry, sync, pm, gateway>>

InitCreate ==
    /\ positions = NoPositions
    /\ orders = <<>>
    /\ nextId = 1
    /\ markets = [s \in Symbols |-> 1]
    /\ retry = CreateCallInit
    /\ entry = Idle
    /\ sync = Idle
    /\ pm = Idle
    /\ calc = Idle
    /\ loop = Idle
    /\ gateway = Idle

NextCreate == CreateOrderCall \/ CreateOrderAttempt \/ CreateOrderExhausted

SpecCreate == InitCreate /\ [][NextCreate]_vars

\* How many exchange-side orders carry the client order id.
CreatedWith(id) == Cardinality({k \in 1..Len(retry.created) : retry.created[k] = id})

\* C12 witness: a call whose first attempt was applied while its answer was
\* lost, and which was submitted again.
C12_Witness ==
    /\ retry.call = MaxCalls
    /\ Len(retry.sent) >= 2
    /\ CreatedWith(retry.client_id) = 1
    /\ retry.created[Len(retry.created)] = retry.client_id
    /\ retry.sent[1] = retry.client_id
    /\ retry.pc = "raised"

\* C12: the calls made so far have pairwise different client order ids;
\* every attempt of the current call carried the id of that call; and no
\* client order id, so no call, has more than one exchange-side order, each
\* accepted submission being one order or one fill on the exchange.
C12_OneOrderPerCall ==
    /\ \A i, j \in 1..Len(retry.ids) : i # j => retry.ids[i] # retry.ids[j]
    /\ \A k \in 1..Len(retry.sent) : retry.sent[k] = retry.client_id
    /\ \A k \in 1..Len(retry.created) :
         /\ CreatedWith(retry.created[k]) = 1
         /\ \E i \in 1..Len(retry.ids) : retry.ids[i] = retry.created[k]
    /\ Len(retry.created) <= retry.call
    /\ Len(retry.created) = nextId - 1

-----------------------------------------------------------------------------
(* SafeExchange.fetch_ticker, exchange.py:224-250, with                    *)
(* _check_data_freshness, exchange.py:205-222.  Times are milliseconds.    *)

STALE_DATA_THRESHOLD_MS == 10000

\* int(time.time() * 1000) when the ticker is checked.
Clocks == {STALE_DATA_THRESHOLD_MS + 2, 2 * STALE_DATA_THRESHOLD_MS, 3 * STALE_DATA_THRESHOLD_MS}

\* ticker['timestamp'] as delivered: absent or None, zero, or a time just
\* past, at or within the threshold, or ahead of the local clock.
TickerTimestamps(now) ==
    {NoneVal, 0, now - STALE_DATA_THRESHOLD_MS - 1, now - STALE_DATA_THRESHOLD_MS,
     now - STALE_DATA_THRESHOLD_MS + 1, now + 1}

\* Line 244: 'timestamp' in ticker and ticker['timestamp'] (0 is falsy).
HasTimestamp(ticker) == ticker.timestamp # NoneVal /\ ticker.timestamp # 0

\* _check_data_freshness: whether it raises StaleDataError.
IsStale(now, timestamp_ms) == now - timestamp_ms > STALE_DATA_THRESHOLD_MS

TickerCallInit(now) ==
    [pc |-> "running", attempt |-> 0, calls |-> 0, now |-> now,
     delivered |-> [timestamp |-> NoneVal, last |-> 0], got |-> FALSE,
     result |-> NoneVal, error |-> "None"]

\* Line 241, one attempt of _retry_async(self.exchange.fetch_ticker), and
\* lines 243-250 once a ticker has arrived.
FetchTickerAttempt ==
    /\ retry.pc = "running"
    /\ retry.attempt < MAX_RETRIES
    /\ \E out \in AttemptOutcomes, ts \in TickerTimestamps(retry.now) :
         LET r == [retry EXCEPT !.calls = @ + 1]
             ticker == [timestamp |-> ts, last |-> BasePx]
         IN retry' =
              CASE out = "ok" ->
                     IF HasTimestamp(ticker) /\ IsStale(retry.now, ticker.timestamp)
                     THEN [r EXCEPT !.pc = "raised", !.error = "StaleDataError",
                                    !.delivered = ticker, !.got = TRUE]
                     ELSE [r EXCEPT !.pc = "returned", !.result = ticker.last,
                                    !.delivered = ticker, !.got = TRUE]
                [] out \in TransientErrors -> [r EXCEPT !.attempt = RetryNextAttempt(@)]
                [] out = "ExchangeError" -> [r EXCEPT !.pc = "raised", !.error = "ExchangeError"]
                [] OTHER -> [r EXCEPT !.pc = "raised", !.error = out]
    /\ UNCHANGED <<exVars, calc, loop, entry, sync, pm, gateway>>

\* Line 193.
FetchTickerExhausted ==
    /\ retry.pc = "running"
    /\ retry.attempt >= MAX_RETRIES
    /\ retry' = [retry EXCEPT !.pc = "raised", !.error = "ExchangeError"]
    /\ UNCHANGED <<exVars, calc, loop, entry, sync, pm, gateway>>

InitTicker ==
    /\ positions = NoPositions
    /\ orders = <<>>
    /\ nextId = 1
    /\ markets = [s \in Symbols |-> 1]
    /\ \E now \in Clocks : retry = TickerCallInit(now)
    /\ entry = Idle
    /\ sync = Idle
    /\ pm = Idle
    /\ calc = Idle
    /\ loop = Idle
    /\ gateway = Idle

NextTicker == FetchTickerAttempt \/ FetchTickerExhausted

SpecTicker == InitTicker /\ [][NextTicker]_vars

\* The age of the ticker that arrived.
TickerAge == retry.now - retry.delivered.timestamp

\* C13 (as claimed): a ticker that arrived with a timestamp older than the
\* threshold is not returned, the call raising StaleDataError; one that
\* arrived without a timestamp is returned; and a call that raised
\* StaleDataError made no attempt after the ticker arrived.
C13_Original ==
    retry.got =>
        /\ (retry.delivered.timestamp # NoneVal /\ TickerAge > STALE_DATA_THRESHOLD_MS)
             => (retry.pc = "raised" /\ retry.error = "StaleDataError"
                 /\ retry.result = NoneVal)
        /\ retry.delivered.timestamp = NoneVal
             => (retry.pc = "returned" /\ retry.result = retry.delivered.last)
        /\ retry.error = "StaleDataError" => retry.calls = retry.attempt + 1

-----------------------------------------------------------------------------
(* core/safety.py: ghost_synchronizer, safety.py:275-418, with             *)
(* fix_missing_stop_loss and fix_qty_mismatch.  One step per remote call;  *)
(* the pass is called with symbol=None as the trading loop calls it.       *)

QTY_MISMATCH_TOLERANCE == 0   \* safety.py:24: 0.00001, less than one lot step
StoplossPercent == 10         \* stoploss_percent, in whole percent

\* safety.is_stop_order
IsStopOrder(order) == order.type \in {"STOP_MARKET", "STOP", "STOP_LOSS", "STOP_LOSS_LIMIT"}

\* safety.get_position_side
GetPositionSide(position) ==
    IF position.side = "long" \/ position.contracts > 0 THEN "LONG" ELSE "SHORT"

\* safety.get_position_qty
GetPositionQty(position) == Abs(position.contracts)

\* safety.find_stop_loss_for_position: index of the first order of the
\* position's symbol that is a stop on the closing side, or None.
FindStopLoss(position, open_orders) ==
    LET hits == {i \in 1..Len(open_orders) :
                    /\ open_orders[i].symbol = position.symbol
                    /\ IsStopOrder(open_orders[i])
                    /\ open_orders[i].side = OppositeSide(GetPositionSide(position) = "LONG")}
    IN IF hits = {} THEN NoneVal ELSE CHOOSE i \in hits : \A j \in hits : i <= j

CheckSlQtyMismatchInclusive(position_qty, sl_qty) ==
    Abs(position_qty - sl_qty) >= QTY_MISMATCH_TOLERANCE

\* safety.check_sl_qty_mismatch
CheckSlQtyMismatch(position_qty, sl_qty) ==
    Abs(position_qty - sl_qty) > QTY_MISMATCH_TOLERANCE

\* fix_missing_stop_loss, lines 157-170: entry * (1 - pct/100) for a long,
\* entry * (2 - (1 - pct/100)) for a short, floored to the tick.
FixedStopPrice(entry_price, is_long, percent, tick_size) ==
    FloorPriceToTick(entry_price * (IF is_long THEN 100 - percent ELSE 100 + percent),
                     100, tick_size)

\* fetch_positions: the positions with contracts != 0, as a list.
RECURSIVE PositionList(_)
PositionList(syms) ==
    IF syms = <<>> THEN <<>>
    ELSE LET p == positions[Head(syms)] IN
         (IF p.contracts # 0
          THEN <<[symbol |-> Head(syms), contracts |-> p.contracts,
                  side |-> p.side, entryPrice |-> p.entryPrice]>>
          ELSE <<>>) \o PositionList(Tail(syms))

FetchPositions == PositionList(<<"BTC", "ETH">>)

SyncResult ==
    [positions_checked |-> 0, missing_sl_fixed |-> 0, qty_mismatch_fixed |-> 0,
     errors |-> 0, all_synced |-> FALSE]

\* Per position: the case the pass put it in, and how its repair ended.
NotSeen ==
    [case |-> "none", cancel |-> "none", attempts |-> 0, success |-> FALSE,
     verified |-> "none", submitted |-> <<>>]

SyncInit ==
    [pc |-> "fetch_positions", positions |-> <<>>, open_orders |-> <<>>,
     i |-> 0, all_synced |-> TRUE, result |-> SyncResult, order_id |-> NoneVal,
     error |-> "None", seen |-> [s \in Symbols |-> NotSeen], sent |-> <<>>,
     pass |-> 1]

SyncPosition == sync.positions[sync.i]

\* Lines 415-418: an ExchangeError anywhere in the pass ends it.
SyncAbort(sy) ==
    [sy EXCEPT !.pc = "returned", !.result.errors = @ + 1, !.error = "ExchangeError"]

\* Lines 406-413.
SyncReturn(sy) ==
    [sy EXCEPT !.pc = "returned",
               !.result.all_synced = sy.all_synced /\ sy.result.errors = 0]

\* Lines 343-351 and the case split: the next position of the snapshot, or
\* the end of the loop.
SyncAdvance(sy) ==
    IF sy.i = Len(sy.positions) THEN SyncReturn(sy)
    ELSE LET position == sy.positions[sy.i + 1]
             k == FindStopLoss(position, sy.open_orders)
             mismatch == k # NoneVal /\
                         CheckSlQtyMismatch(GetPositionQty(position), sy.open_orders[k].amount)
             case == IF k = NoneVal THEN "missing"
                     ELSE IF mismatch THEN "mismatch" ELSE "ok"
             checked == [sy EXCEPT !.i = @ + 1, !.result.positions_checked = @ + 1,
                                   !.seen[position.symbol].case = case,
                                   !.pc = CASE case = "missing" -> "fix"
                                            [] case = "mismatch" -> "cancel"
                                            [] OTHER -> "next"]
         IN checked

\* Lines 364-369 and 389-393: the repair of the current position returned.
SyncRepaired(sy, success, verified) ==
    LET position == sy.positions[sy.i]
        case == sy.seen[position.symbol].case
        counted ==
            IF success
            THEN IF case = "missing"
                 THEN [sy EXCEPT !.result.missing_sl_fixed = @ + 1]
                 ELSE [sy EXCEPT !.result.qty_mismatch_fixed = @ + 1]
            ELSE [sy EXCEPT !.result.errors = @ + 1, !.all_synced = FALSE]
    IN [counted EXCEPT !.pc = "next",
                       !.seen[position.symbol].attempts = @ + 1,
                       !.seen[position.symbol].success = success,
                       !.seen[position.symbol].verified = verified]

\* Line 313-318.
SyncFetchPositions ==
    /\ sync.pc = "fetch_positions"
    /\ \E out \in CallOutcomes :
         sync' = IF out = "fail" THEN SyncAbort(sync)
                 ELSE IF FetchPositions = <<>>
                      THEN [sync EXCEPT !.pc = "returned", !.result.all_synced = TRUE]
                      ELSE [sync EXCEPT !.pc = "fetch_orders", !.positions = FetchPositions]
    /\ UNCHANGED <<exVars, calc, loop, retry, entry, pm, gateway>>

\* Line 329.
SyncFetchOrders ==
    /\ sync.pc = "fetch_orders"
    /\ \E out \in CallOutcomes :
         sync' = IF out = "fail" THEN SyncAbort(sync)
                 ELSE [sync EXCEPT !.pc = "next", !.open_orders = OpenOrders]
    /\ UNCHANGED <<exVars, calc, loop, retry, entry, pm, gateway>>

\* Lines 343-351, 394-413: take the next position, or finish the pass.
SyncNextPosition ==
    /\ sync.pc = "next"
    /\ sync' = SyncAdvance(sync)
    /\ UNCHANGED <<exVars, calc, loop, retry, entry, pm, gateway>>

\* fix_qty_mismatch, lines 259-272: cancel the stale stop; a failed cancel
\* returns False, a successful one goes on to fix_missing_stop_loss.
CancelFailureIgnored(out) == FALSE

\* fix_qty_mismatch, lines 259-272: an exception of cancel_order is caught
\* and the repair returns False before fix_missing_stop_loss is called.
CancelFailed(out) == out # "ok"

SyncCancelStale ==
    /\ sync.pc = "cancel"
    /\ \E out \in CallOutcomes :
         LET k == FindStopLoss(SyncPosition, sync.open_orders)
             sl_order == sync.open_orders[k]
             sy == [sync EXCEPT !.sent = Append(@, Sent("cancel", sl_order.side, sl_order.amount, sl_order.stopPrice, out)),
                                !.seen[SyncPosition.symbol].cancel = out]
         IN
         /\ CancelOrder(out, sl_order.id)
         /\ sync' = IF CancelFailed(out) THEN SyncRepaired(sy, FALSE, "none")
                    ELSE [sy EXCEPT !.pc = "fix"]
    /\ UNCHANGED <<positions, nextId, markets, calc, loop, retry, entry, pm, gateway>>

\* fix_missing_stop_loss: the amount of the repair stop.
RepairAmountUnit(sy) == IF sy.positions[sy.i].contracts = 0 THEN 0 ELSE 1

RepairAmount(sy) == GetPositionQty(sy.positions[sy.i])

\* fix_missing_stop_loss, lines 148-183 and 217-219: the entry-price test,
\* the tick lookup (its errors are caught only inside fix_qty_mismatch), and
\* create_stop_market_order.
SyncCreateStop ==
    /\ sync.pc = "fix"
    /\ LET position == SyncPosition
           in_mismatch == sync.seen[position.symbol].case = "mismatch"
           lookup == TickLookupError(position.symbol)
       IN
       IF position.entryPrice = 0
       THEN /\ sync' = SyncRepaired(sync, FALSE, "none")
            /\ UNCHANGED <<orders, nextId>>
       ELSE IF lookup # "None"
       THEN /\ sync' = IF in_mismatch THEN SyncRepaired(sync, FALSE, "none")
                       ELSE IF lookup = "ExchangeError" THEN SyncAbort(sync)
                       ELSE [sync EXCEPT !.pc = "raised", !.error = lookup]
            /\ UNCHANGED <<orders, nextId>>
       ELSE \E out \in CreateOutcomes \cup {"rejected"} :
              LET is_long == GetPositionSide(position) = "LONG"
                  sl_price == FixedStopPrice(position.entryPrice, is_long,
                                             StoplossPercent, markets[position.symbol])
                  sy == [sync EXCEPT !.sent = Append(@, Sent("stop", OppositeSide(is_long), RepairAmount(sync), sl_price, out)),
                                    !.seen[position.symbol].submitted = Append(@, RepairAmount(sync))]
              IN
              /\ CreateTriggerOrder(out, position.symbol, "STOP_MARKET",
                                    OppositeSide(is_long), RepairAmount(sync), sl_price)
              /\ sync' = IF out \in {"ok", "rejected"}
                         THEN [sy EXCEPT !.pc = "verify", !.order_id = nextId]
                         ELSE SyncRepaired(sy, FALSE, "none")
    /\ UNCHANGED <<positions, markets, calc, loop, retry, entry, pm, gateway>>

\* fix_missing_stop_loss, lines 184-215: re-fetch the new order; only a
\* status read as canceled/expired/rejected makes the repair fail.
SyncVerifyStop ==
    /\ sync.pc = "verify"
    /\ \E out \in CallOutcomes :
         LET fresh == CHOOSE o \in {orders[i] : i \in 1..Len(orders)} : o.id = sync.order_id
         IN
         sync' = IF out = "fail" THEN SyncRepaired(sync, TRUE, "unverified")
                 ELSE IF fresh.status = "open" THEN SyncRepaired(sync, TRUE, "open")
                 ELSE SyncRepaired(sync, FALSE, fresh.status)
    /\ UNCHANGED <<exVars, calc, loop, retry, entry, pm, gateway>>

\* Orders on the book when a pass starts.
BookOrders ==
    {[symbol |-> "BTC", type |-> t, side |-> sd, amount |-> a] :
        t \in {"STOP_MARKET", "TAKE_PROFIT_MARKET"}, sd \in {"buy", "sell"}, a \in 1..MaxQty}
    \cup {[symbol |-> "ETH", type |-> "STOP_MARKET", side |-> "sell", amount |-> 1]}

Book(choice) ==
    [i \in 1..Len(choice) |->
        NewOrder(i, choice[i].symbol, choice[i].type, choice[i].side, choice[i].amount,
                 IF choice[i].side = "sell" THEN BasePx - 1 ELSE BasePx + 1)]

InitSync ==
    /\ \E c \in (-MaxQty)..MaxQty, known \in BOOLEAN, e \in 0..1 :
         positions = [s \in Symbols |->
            IF s = "BTC"
            THEN ApplyFill([Flat EXCEPT !.entryPrice = 0], "buy", c, IF known THEN BasePx ELSE 0)
            ELSE ApplyFill(Flat, "buy", e, BasePx)]
    /\ \E choice \in {<<>>} \cup {<<a>> : a \in BookOrders}
                        \cup {<<a, b>> : a \in BookOrders, b \in BookOrders} :
         /\ orders = Book(choice)
         /\ nextId = Len(choice) + 1
    /\ \/ \E t \in 0..MaxTick : markets = [s \in Symbols |-> t]
       \/ markets = [s \in {"ETH"} |-> 1]
    /\ retry = Idle
    /\ entry = Idle
    /\ sync = SyncInit
    /\ pm = Idle
    /\ calc = Idle
    /\ loop = Idle
    /\ gateway = Idle

NextSync ==
    \/ SyncFetchPositions
    \/ SyncFetchOrders
    \/ SyncNextPosition
    \/ SyncCancelStale
    \/ SyncCreateStop
    \/ SyncVerifyStop

SpecSync == InitSync /\ [][NextSync]_vars

SyncEnded == sync.pc \in {"returned", "raised"}

HeldSymbols == {s \in Symbols : positions[s].contracts # 0}

\* The open stop orders on the closing side of the position in s, and
\* those of them whose amount is the position's within the tolerance.
ClosingStops(s) ==
    {i \in 1..Len(orders) :
        /\ orders[i].status = "open"
        /\ orders[i].symbol = s
        /\ IsStopOrder(orders[i])
        /\ orders[i].side = OppositeSide(positions[s].contracts > 0)}

MatchingStops(s) ==
    {i \in ClosingStops(s) :
        ~CheckSlQtyMismatch(Abs(positions[s].contracts), orders[i].amount)}

\* The stop orders on the closing side of s in the book the pass fetched.
StopsAtStart(s) ==
    {i \in 1..Len(sync.open_orders) :
        /\ sync.open_orders[i].symbol = s
        /\ IsStopOrder(sync.open_orders[i])
        /\ sync.open_orders[i].side = OppositeSide(positions[s].contracts > 0)}

\* C4 (as claimed, in the case most favourable to it): after a pass that
\* returns with all_synced = true, and that found at most one stop order on
\* the closing side of each position, every position with a non-zero quantity
\* has exactly one open stop order of its symbol on the closing side whose
\* quantity is the position's within the tolerance.  The claim says this of
\* every pass that completes, so it implies this statement.
C4_OneMatchingStopAfterPass ==
    (/\ sync.pc = "returned"
     /\ sync.result.all_synced
     /\ \A s \in HeldSymbols : Cardinality(StopsAtStart(s)) <= 1)
        => \A s \in HeldSymbols : Cardinality(MatchingStops(s)) = 1

Repairable(s) == positions[s].entryPrice # 0 /\ TickLookupError(s) = "None"

RepairUnderWay(s) ==
    /\ sync.pc \in {"cancel", "fix", "verify"}
    /\ SyncPosition.symbol = s

\* The stop order the pass found for the position in s is still on the book.
StaleStopOpen(s) ==
    LET k == FindStopLoss([symbol |-> s, contracts |-> positions[s].contracts,
                           side |-> positions[s].side], sync.open_orders)
    IN k # NoneVal /\ \E i \in 1..Len(orders) : orders[i].id = sync.open_orders[k].id

C24_Witness ==
    /\ sync.pc = "returned"
    /\ \E s \in Symbols :
         /\ sync.seen[s].case = "mismatch"
         /\ sync.seen[s].cancel = "ok"
         /\ sync.seen[s].submitted = <<MaxQty>>
         /\ sync.seen[s].success
         /\ sync.result.qty_mismatch_fixed = 1
         /\ ~StaleStopOpen(s)

\* C24: for a position whose stop order differs in quantity from the
\* position, nothing is submitted before the cancel of the stale stop has
\* succeeded; what is submitted afterwards is one stop order of the
\* position's quantity (none when the entry price is unknown or the tick size
\* unusable); and when the cancel fails nothing is submitted, the stale stop
\* stays, the repair is a failure and the pass counts an error and is not
\* all_synced.
C24_CancelBeforeReplacement ==
    \A s \in Symbols :
        sync.seen[s].case = "mismatch" =>
            /\ sync.seen[s].submitted # <<>> =>
                    /\ sync.seen[s].cancel = "ok"
                    /\ ~StaleStopOpen(s)
                    /\ sync.seen[s].submitted = <<Abs(positions[s].contracts)>>
            /\ (sync.seen[s].cancel = "ok" /\ ~RepairUnderWay(s)) =>
                    sync.seen[s].submitted =
                        IF Repairable(s) THEN <<Abs(positions[s].contracts)>> ELSE <<>>
            /\ sync.seen[s].cancel = "fail" =>
                    /\ sync.seen[s].submitted = <<>>
                    /\ StaleStopOpen(s)
                    /\ ~sync.seen[s].success
                    /\ sync.result.errors >= 1
                    /\ ~sync.all_synced
                    /\ sync.pc = "returned" => ~sync.result.all_synced

\* The stop order the pass found for the position in s (the first stop of
\* the symbol on the closing side in the fetched book) has the position's
\* quantity within the tolerance.
FoundStopMatches(s) ==
    \E i \in StopsAtStart(s) :
        /\ \A j \in StopsAtStart(s) : i <= j
        /\ Abs(Abs(positions[s].contracts) - sync.open_orders[i].amount)
              <= QTY_MISMATCH_TOLERANCE

\* The pass has taken the position in s from its snapshot.
Checked(s) ==
    \E i \in 1..sync.i : sync.positions[i].symbol = s

CheckedSymbols == {s \in Symbols : Checked(s)}

C25_Witness ==
    /\ sync.pc = "returned"
    /\ sync.error = "None"
    /\ CheckedSymbols = {"BTC", "ETH"}
    /\ \A s \in CheckedSymbols : FoundStopMatches(s)
    /\ Abs(positions["BTC"].contracts) = MaxQty
    /\ sync.result = [positions_checked |-> 2, missing_sl_fixed |-> 0,
                      qty_mismatch_fixed |-> 0, errors |-> 0, all_synced |-> TRUE]

\* C25: for a position whose stop order has the position's quantity within
\* the tolerance, the pass sends no cancel and submits no order: the position
\* is never under repair and nothing is recorded as cancelled or submitted for
\* it; the step that checks it leaves the order book and the log of requests
\* as they were and changes no counter but positions_checked, which it raises
\* by one; and a pass that checked only such positions leaves every other
\* counter at zero.
C25_MatchingStopLeftAlone ==
    /\ [](\A s \in CheckedSymbols :
            FoundStopMatches(s) =>
                /\ ~RepairUnderWay(s)
                /\ sync.seen[s].cancel = "none"
                /\ sync.seen[s].submitted = <<>>)
    /\ []((CheckedSymbols # {} /\ \A s \in CheckedSymbols : FoundStopMatches(s)) =>
            /\ sync.sent = <<>>
            /\ sync.result.missing_sl_fixed = 0
            /\ sync.result.qty_mismatch_fixed = 0
            /\ sync.result.errors = 0
            /\ orders = sync.open_orders)
    /\ [][\A s \in Symbols :
            (~Checked(s) /\ Checked(s)' /\ FoundStopMatches(s)') =>
                /\ orders' = orders
                /\ sync'.sent = sync.sent
                /\ sync'.result = [sync.result EXCEPT !.positions_checked = @ + 1]]_vars

\* C26: a repair is counted as fixed only if the stop order submitted for it
\* is open on the exchange; a repair whose stop order the exchange rejected,
\* cancelled or let expire is not counted as fixed, the pass counts an error
\* for it and, when it returns, does not report all_synced.
C26_FixedOnlyIfOpen ==
    \A s \in Symbols :
        sync.seen[s].case \in {"missing", "mismatch"} =>
            /\ sync.seen[s].success => MatchingStops(s) # {}
            /\ (~RepairUnderWay(s) /\ sync.seen[s].submitted # <<>> /\ MatchingStops(s) = {}) =>
                    /\ ~sync.seen[s].success
                    /\ sync.result.errors >= 1
                    /\ ~sync.all_synced
                    /\ sync.pc = "returned" => ~sync.result.all_synced

\* The pass got past its two initial fetches: fetch_positions and
\* fetch_open_orders both answered.
InitialFetchesSucceeded == ~(sync.i = 0 /\ sync.error # "None")

\* C38: in a reconciliation pass whose initial position and order fetches
\* succeed, every open position is checked: positions_checked equals the
\* number of open positions when the pass ends, whatever fails while one
\* position is repaired.
C38_EveryPositionChecked ==
    (SyncEnded /\ InitialFetchesSucceeded) =>
        sync.result.positions_checked = Cardinality(HeldSymbols)

\* C27: the pass counts an error for a position with a missing or
\* mis-sized stop only after its repair has been attempted twice and has
\* failed: the errors counter never exceeds the number of positions whose
\* repair returned at least twice without success (plus one when an exchange
\* error ended the pass).
C27_ErrorOnlyAfterTwoFailures ==
    sync.result.errors <=
        Cardinality({s \in Symbols : sync.seen[s].attempts >= 2 /\ ~sync.seen[s].success})
        + (IF sync.error = "ExchangeError" THEN 1 ELSE 0)

-----------------------------------------------------------------------------
(* strategy/manager.py: PositionManager, with process_trailing_stops,      *)
(* _move_stop_loss and _check_tp_timeout.  One step per remote call; the   *)
(* trading loop fetches positions and open orders and hands them over.     *)

TrailingActivationPercent == 10   \* trailing_activation_percent, whole percent
TrailingCallbackPercent == 10     \* trailing_callback_percent, whole percent
TpTimeoutSeconds == 2             \* tp_timeout_seconds
MaxCycles == 2                    \* iterations of the trading loop
MaxRise == 2                      \* last prices lie within BasePx -/+ MaxRise

PriceRange == (BasePx - MaxRise)..(BasePx + MaxRise)

\* PositionTracker, manager.py:35-46; exists = FALSE: no tracker for the symbol.
NoTracker ==
    [exists |-> FALSE, entry_price |-> 0, highest_price |-> 0, lowest_price |-> 0,
     is_long |-> FALSE, trailing_activated |-> FALSE, last_sl_price |-> 0,
     tp_reached_time |-> NoneVal, tp_level |-> 0]

\* _get_or_create_tracker
GetOrCreateTracker(trackers, position) ==
    IF trackers[position.symbol].exists THEN trackers[position.symbol]
    ELSE [NoTracker EXCEPT !.exists = TRUE,
                           !.entry_price = position.entryPrice,
                           !.highest_price = position.entryPrice,
                           !.lowest_price = position.entryPrice,
                           !.is_long = GetPositionSide(position) = "LONG"]

\* _update_price_extremes
UpdatePriceExtremes(tracker, current_price) ==
    IF tracker.is_long
    THEN IF current_price > tracker.highest_price
         THEN [tracker EXCEPT !.highest_price = current_price] ELSE tracker
    ELSE IF current_price < tracker.lowest_price
         THEN [tracker EXCEPT !.lowest_price = current_price] ELSE tracker

CheckTrailingActivationAtEntry(tracker, current_price) ==
    IF tracker.trailing_activated THEN TRUE
    ELSE IF tracker.entry_price = 0 THEN FALSE
    ELSE IF tracker.is_long
         THEN current_price >= tracker.entry_price
         ELSE current_price <= tracker.entry_price

\* _check_trailing_activation (its result; it also sets trailing_activated)
CheckTrailingActivation(tracker, current_price) ==
    IF tracker.trailing_activated THEN TRUE
    ELSE IF tracker.entry_price = 0 THEN FALSE
    ELSE IF tracker.is_long
         THEN current_price * 100 >= tracker.entry_price * (100 + TrailingActivationPercent)
         ELSE current_price * 100 <= tracker.entry_price * (100 - TrailingActivationPercent)

\* _calculate_trailing_sl, in hundredths of a price unit: the result is not
\* floored to the tick.
CalculateTrailingSl(tracker) ==
    IF tracker.is_long
    THEN tracker.highest_price * (100 - TrailingCallbackPercent)
    ELSE tracker.lowest_price * (100 + TrailingCallbackPercent)

\* process_trailing_stops, lines 496-508: new_sl_price in hundredths.
ShouldMove(tracker, new_sl_price, current_sl_price) ==
    IF tracker.is_long THEN new_sl_price > current_sl_price * 100
    ELSE new_sl_price < current_sl_price * 100

\* _check_tp_timeout, lines 330-336: the first take-profit order of the symbol.
FindTakeProfit(symbol, open_orders) ==
    LET hits == {i \in 1..Len(open_orders) :
                    /\ open_orders[i].symbol = symbol
                    /\ open_orders[i].type = "TAKE_PROFIT_MARKET"}
    IN IF hits = {} THEN NoneVal ELSE CHOOSE i \in hits : \A j \in hits : i <= j

\* Lines 343-350.
TpReached(tracker, current_price) ==
    IF tracker.is_long THEN current_price >= tracker.tp_level
    ELSE current_price <= tracker.tp_level

\* Line 362: elapsed >= self.tp_timeout_seconds.
TpTimedOutLate(elapsed) == elapsed > TpTimeoutSeconds

TpTimedOut(elapsed) == elapsed >= TpTimeoutSeconds

TimerKeptAfterRetreat(tracker) == tracker

\* Lines 399-404: the price is off the take-profit level, the timer is reset.
TimerAfterRetreat(tracker) == [tracker EXCEPT !.tp_reached_time = NoneVal]

\* _check_tp_timeout up to its remote call: the tracker afterwards, and
\* whether the position is to be force closed.
CheckTpTimeout(tracker, symbol, current_price, open_orders, now) ==
    LET k == FindTakeProfit(symbol, open_orders)
        t == IF k = NoneVal THEN tracker
             ELSE [tracker EXCEPT !.tp_level = open_orders[k].stopPrice]
    IN IF k = NoneVal \/ t.tp_level = 0
       THEN [tracker |-> [t EXCEPT !.tp_reached_time = NoneVal], close |-> FALSE]
       ELSE IF TpReached(t, current_price)
            THEN IF t.tp_reached_time = NoneVal
                 THEN [tracker |-> [t EXCEPT !.tp_reached_time = now], close |-> FALSE]
                 ELSE [tracker |-> t, close |-> TpTimedOut(now - t.tp_reached_time)]
            ELSE [tracker |-> TimerAfterRetreat(t), close |-> FALSE]

PMResult ==
    [positions_processed |-> 0, trailing_activated |-> 0, stops_moved |-> 0,
     tp_timeouts |-> 0, errors |-> 0]

\* cycle, now: the iteration of the trading loop and its clock.  observed,
\* new_extreme, due, sent: what the current iteration saw and called for the
\* position at hand.  moves: every stop submitted, with the stop it replaced.
\* timer: the starts and resets of the take-profit timer, oldest first.
\* reopened: the positions opened on a symbol after its position was closed.
PMInit ==
    [pc |-> "idle", cycle |-> 0, now |-> 0,
     trackers |-> [s \in Symbols |-> NoTracker],
     positions |-> <<>>, open_orders |-> <<>>, i |-> 0, current_price |-> 0,
     sl_order |-> NoneVal, new_sl_price |-> 0, result |-> PMResult,
     observed |-> FALSE, new_extreme |-> FALSE, due |-> FALSE,
     sent |-> <<>>, moves |-> <<>>, timer |-> <<>>, reopened |-> 0,
     finished |-> "none"]

PMPosition == pm.positions[pm.i]

\* Line 448: the next position of the list, or the end of the call.
PMContinue(p) ==
    IF p.i = Len(p.positions) THEN [p EXCEPT !.pc = "idle"]
    ELSE [p EXCEPT !.pc = "ticker", !.i = @ + 1]

PMError(p) == PMContinue([p EXCEPT !.result.errors = @ + 1])

\* process_trailing_stops, lines 472-517, and _move_stop_loss, lines 236-243:
\* from the activation check to the first remote call of the stop move.
PMTrail(p) ==
    LET position == p.positions[p.i]
        s == position.symbol
        tracker == p.trackers[s]
    IN IF ~CheckTrailingActivation(tracker, p.current_price)
       THEN IF tracker.entry_price = 0 THEN PMError(p) ELSE PMContinue(p)
       ELSE LET p1 == [p EXCEPT !.trackers[s].trailing_activated = TRUE]
                k == FindStopLoss(position, p.open_orders)
                new_sl_price == CalculateTrailingSl(tracker)
            IN IF k = NoneVal THEN PMError(p1)
               ELSE IF ~ShouldMove(tracker, new_sl_price, p.open_orders[k].stopPrice)
                    THEN PMContinue(p1)
               ELSE IF TickLookupError(s) # "None" THEN PMError(p1)
               ELSE [p1 EXCEPT !.pc = "cancel", !.sl_order = k,
                               !.new_sl_price = new_sl_price, !.finished = "none"]

\* The time between two iterations matters only while a take-profit timer
\* runs.
TimerRuns == \E s \in Symbols : pm.trackers[s].tp_reached_time # NoneVal

\* main.py:242-257: process_trailing_stops is called only if
\* get_position_summary returned a position; it returns [] when there is
\* none and when one of its fetches raised (safety.py:500-502).
SummariesEmpty(out) == out = "fail" \/ FetchPositions = <<>>

\* main.py:242-268 and process_trailing_stops, lines 425-446: a new
\* iteration takes the position summary and, unless it is empty, fetches
\* positions and open orders and prunes the trackers.
StartCycle(max_cycles) ==
    /\ pm.pc = "idle"
    /\ pm.cycle < max_cycles
    /\ \E dt \in 1..(IF TimerRuns THEN TpTimeoutSeconds ELSE 1), out \in CallOutcomes :
         LET fetched == FetchPositions
             held == {fetched[k].symbol : k \in 1..Len(fetched)}
             p0 == [pm EXCEPT !.cycle = @ + 1, !.now = @ + dt, !.sent = <<>>,
                              !.observed = FALSE, !.new_extreme = FALSE, !.due = FALSE,
                              !.finished = "none"]
             p == [p0 EXCEPT !.positions = fetched, !.open_orders = OpenOrders,
                             !.result = PMResult,
                             !.trackers = [s \in Symbols |->
                                              IF s \in held THEN pm.trackers[s] ELSE NoTracker]]
         IN pm' = IF SummariesEmpty(out) THEN p0
                  ELSE IF fetched = <<>> THEN [p EXCEPT !.i = 0]
                  ELSE [p EXCEPT !.pc = "ticker", !.i = 1]
    /\ UNCHANGED <<exVars, calc, loop, retry, entry, sync, gateway>>

PMStartCycle == StartCycle(MaxCycles)

\* What _check_tp_timeout did to the timer.
TimerEvent(before, after) ==
    IF before.tp_reached_time = NoneVal /\ after.tp_reached_time # NoneVal THEN <<"start">>
    ELSE IF before.tp_reached_time # NoneVal /\ after.tp_reached_time = NoneVal THEN <<"reset">>
    ELSE <<>>

\* Lines 448-470: tracker, ticker, price extremes and _check_tp_timeout up
\* to its market order; without a forced close, on to the trailing stop.
PMFetchTicker ==
    /\ pm.pc = "ticker"
    /\ \E out \in CallOutcomes, last \in PriceRange \cup {0} :
         LET position == PMPosition
             s == position.symbol
             created == GetOrCreateTracker(pm.trackers, position)
             p0 == [pm EXCEPT !.result.positions_processed = @ + 1,
                              !.trackers[s] = created,
                              !.observed = FALSE, !.new_extreme = FALSE, !.due = FALSE,
                              !.sent = <<>>, !.finished = "none"]
             tracker == UpdatePriceExtremes(created, last)
             tp == CheckTpTimeout(tracker, s, last, pm.open_orders, pm.now)
             p1 == [p0 EXCEPT !.current_price = last, !.observed = TRUE,
                              !.new_extreme = tracker # created,
                              !.due = tp.close,
                              !.timer = @ \o TimerEvent(created, tp.tracker),
                              !.trackers[s] = tp.tracker]
         IN pm' = IF out = "fail" THEN PMError(p0)
                  ELSE IF last = 0 THEN PMContinue(p0)
                  ELSE IF tp.close THEN [p1 EXCEPT !.pc = "tp_close"]
                  ELSE PMTrail(p1)
    /\ UNCHANGED <<exVars, calc, loop, retry, entry, sync, gateway>>

\* _check_tp_timeout, lines 374-395: create_market_order (not reduce-only)
\* for the position's quantity; if it fails the trailing stop is processed.
PMForceClose ==
    /\ pm.pc = "tp_close"
    /\ \E out \in CreateOutcomes :
         LET position == PMPosition
             s == position.symbol
             close_side == OppositeSide(pm.trackers[s].is_long)
             pos_qty == GetPositionQty(position)
             p == [pm EXCEPT !.sent = Append(@, Sent("market", close_side, pos_qty, pm.current_price, out))]
         IN
         /\ positions' = IF Applied(out)
                         THEN [positions EXCEPT ![s] = ApplyFill(@, close_side, pos_qty, pm.current_price)]
                         ELSE positions
         /\ pm' = IF out = "ok" THEN [p EXCEPT !.pc = "tp_cancel"] ELSE PMTrail(p)
    /\ UNCHANGED <<orders, nextId, markets, calc, loop, retry, entry, sync, gateway>>

\* _check_tp_timeout, lines 384-391, and process_trailing_stops, lines
\* 468-470: cancel the take-profit order; a failure is only logged.
PMCancelTakeProfit ==
    /\ pm.pc = "tp_cancel"
    /\ \E out \in CallOutcomes :
         LET tp_order == pm.open_orders[FindTakeProfit(PMPosition.symbol, pm.open_orders)]
             p == [pm EXCEPT !.sent = Append(@, Sent("cancel_tp", tp_order.side, tp_order.amount, tp_order.stopPrice, out)),
                             !.result.tp_timeouts = @ + 1]
         IN
         /\ CancelOrder(out, tp_order.id)
         /\ pm' = PMContinue(p)
    /\ UNCHANGED <<positions, nextId, markets, calc, loop, retry, entry, sync, gateway>>

\* _move_stop_loss, lines 247-253: cancel the current stop.
PMCancelOldStop ==
    /\ pm.pc = "cancel"
    /\ \E out \in CallOutcomes :
         LET sl_order == pm.open_orders[pm.sl_order]
             p == [pm EXCEPT !.sent = Append(@, Sent("cancel", sl_order.side, sl_order.amount, sl_order.stopPrice, out))]
         IN
         /\ CancelOrder(out, sl_order.id)
         /\ pm' = [p EXCEPT !.pc = IF out = "ok" THEN "place" ELSE "fallback"]
    /\ UNCHANGED <<positions, nextId, markets, calc, loop, retry, entry, sync, gateway>>

\* A stop the manager submitted, and the price of the stop it replaces.
Move(kind, is_long, old, new, out) ==
    [kind |-> kind, is_long |-> is_long, old |-> old, new |-> new, out |-> out]

\* _move_stop_loss, lines 255-272 and 511-515: the new stop, at the trailing
\* price floored to the tick, for the position's quantity.
PMPlaceNewStop ==
    /\ pm.pc = "place"
    /\ \E out \in CreateOutcomes :
         LET position == PMPosition
             s == position.symbol
             is_long == GetPositionSide(position) = "LONG"
             floored_new_sl == FloorPriceToTick(pm.new_sl_price, 100, markets[s])
             old == pm.open_orders[pm.sl_order].stopPrice
             p == [pm EXCEPT !.sent = Append(@, Sent("stop", OppositeSide(is_long), GetPositionQty(position), floored_new_sl, out)),
                             !.moves = Append(@, Move("trail", is_long, old, floored_new_sl, out))]
         IN
         /\ CreateTriggerOrder(out, s, "STOP_MARKET", OppositeSide(is_long),
                               GetPositionQty(position), floored_new_sl)
         /\ pm' = IF out = "ok"
                  THEN PMContinue([p EXCEPT !.trackers[s].last_sl_price = floored_new_sl,
                                            !.result.stops_moved = @ + 1,
                                            !.finished = "moved"])
                  ELSE [p EXCEPT !.pc = "fallback"]
    /\ UNCHANGED <<positions, markets, calc, loop, retry, entry, sync, gateway>>

\* _move_stop_loss, lines 274-302 and 514-515: after any failure, one stop
\* at the original percentage from the entry price; its failure is logged.
PMPlaceFallback ==
    /\ pm.pc = "fallback"
    /\ \E out \in CreateOutcomes :
         LET position == PMPosition
             s == position.symbol
             is_long == GetPositionSide(position) = "LONG"
             fallback_sl == FixedStopPrice(position.entryPrice, is_long,
                                           StoplossPercent, markets[s])
             old == pm.open_orders[pm.sl_order].stopPrice
             p == [pm EXCEPT !.sent = Append(@, Sent("fallback", OppositeSide(is_long), GetPositionQty(position), fallback_sl, out)),
                             !.moves = Append(@, Move("fallback", is_long, old, fallback_sl, out)),
                             !.finished = "failed"]
         IN
         /\ CreateTriggerOrder(out, s, "STOP_MARKET", OppositeSide(is_long),
                               GetPositionQty(position), fallback_sl)
         /\ pm' = PMError(p)
    /\ UNCHANGED <<positions, markets, calc, loop, retry, entry, sync, gateway>>

\* Whether the last price has passed the trigger of a reduce-only order.
Triggered(order, last) ==
    IF (order.type = "STOP_MARKET") = (order.side = "sell")
    THEN last <= order.stopPrice
    ELSE last >= order.stopPrice

\* Between two iterations the exchange may execute an open trigger order
\* whose price the market has passed; it is reduce-only.
ExchangeFill ==
    /\ pm.pc = "idle"
    /\ pm.cycle > 0
    /\ pm.current_price > 0
    /\ \E k \in 1..Len(orders) :
         LET order == orders[k]
             pos == positions[order.symbol]
             filled == ReduceOnlyQty(pos, order.side, order.amount)
         IN
         /\ order.status = "open"
         /\ Triggered(order, pm.current_price)
         /\ filled > 0
         /\ orders' = SelectSeq(orders, LAMBDA o : o.id # order.id)
         /\ positions' = [positions EXCEPT ![order.symbol] =
                             ApplyFill(pos, order.side, filled, order.stopPrice)]
    /\ pm' = [pm EXCEPT !.finished = "none", !.observed = FALSE, !.due = FALSE]
    /\ UNCHANGED <<nextId, markets, calc, loop, retry, entry, sync, gateway>>

\* The stop an entry leaves behind, on the tick grid where there is one.
InitialStopPrice(is_long, tick_size) ==
    IF tick_size > 0 THEN FixedStopPrice(BasePx, is_long, StoplossPercent, tick_size)
    ELSE IF is_long THEN BasePx - 1 ELSE BasePx + 1

InitialTakeProfitPrice(is_long, tick_size) ==
    LET price == IF is_long THEN BasePx + MaxRise ELSE BasePx - MaxRise
    IN IF tick_size > 0 THEN FloorPriceToTick(price, 1, tick_size) ELSE price

InitPM ==
    /\ \E syms \in {{}, {EntrySymbol}} : markets \in [syms -> 0..MaxTick]
    /\ \E is_long \in BOOLEAN, qty \in 1..MaxQty, has_sl \in BOOLEAN, has_tp \in BOOLEAN :
         LET side == OppositeSide(~is_long)
             tick_size == IF EntrySymbol \in DOMAIN markets THEN markets[EntrySymbol] ELSE 0
             sl == IF has_sl
                   THEN <<NewOrder(1, EntrySymbol, "STOP_MARKET", OppositeSide(is_long), qty,
                                   InitialStopPrice(is_long, tick_size))>>
                   ELSE <<>>
             tp == IF has_tp
                   THEN <<NewOrder(Len(sl) + 1, EntrySymbol, "TAKE_PROFIT_MARKET",
                                   OppositeSide(is_long), qty,
                                   InitialTakeProfitPrice(is_long, tick_size))>>
                   ELSE <<>>
         IN
         /\ positions = [NoPositions EXCEPT ![EntrySymbol] = ApplyFill(Flat, side, qty, BasePx)]
         /\ orders = sl \o tp
         /\ nextId = Len(sl \o tp) + 1
    /\ retry = Idle
    /\ entry = Idle
    /\ sync = Idle
    /\ pm = PMInit
    /\ calc = Idle
    /\ loop = Idle
    /\ gateway = Idle

NextPM ==
    \/ PMStartCycle
    \/ PMFetchTicker
    \/ PMForceClose
    \/ PMCancelTakeProfit
    \/ PMCancelOldStop
    \/ PMPlaceNewStop
    \/ PMPlaceFallback
    \/ ExchangeFill

SpecPM == InitPM /\ [][NextPM]_vars

\* The calls of one kind made for the position at hand.
PMSent(call) == SelectSeq(pm.sent, LAMBDA c : c.call = call)

\* The tracker of the position at hand had trailing active when the
\* iteration began: an earlier iteration submitted a trailing stop for it.
C6_Retraced ==
    /\ pm.observed
    /\ ~pm.new_extreme
    /\ pm.trackers[PMPosition.symbol].is_long
    /\ pm.trackers[PMPosition.symbol].trailing_activated

\* C6 (as claimed): for a long position the prices of the stops the manager
\* has submitted never decrease, and an iteration that observes a price which
\* is not a new high, with trailing active, cancels no stop and submits none.
C6_TrailingStopsMonotone ==
    /\ \A i, j \in 1..Len(pm.moves) :
         (i < j /\ pm.moves[i].is_long) => pm.moves[i].new <= pm.moves[j].new
    /\ C6_Retraced =>
         PMSent("cancel") = <<>> /\ PMSent("stop") = <<>> /\ PMSent("fallback") = <<>>

\* C7 (as claimed): every stop the manager has submitted has a trigger price
\* strictly more protective than the stop it replaces: higher for a long,
\* lower for a short.
C7_StrictlyMoreProtective ==
    \A i \in 1..Len(pm.moves) :
        IF pm.moves[i].is_long THEN pm.moves[i].new > pm.moves[i].old
        ELSE pm.moves[i].new < pm.moves[i].old

\* C8 (as claimed): when a stop move has finished, moved or failed, the
\* position has an open stop order on its closing side.
C8_StopAfterMove ==
    (pm.finished # "none" /\ positions[PMPosition.symbol].contracts # 0)
        => ClosingStops(PMPosition.symbol) # {}

\* The stop order a stop move set out to replace is still on the book
\* together with another open stop order on the closing side of the position.
StaleAndNewStop ==
    LET stale == pm.open_orders[pm.sl_order]
    IN \E i, j \in ClosingStops(PMPosition.symbol) :
          orders[i].id = stale.id /\ orders[j].id # stale.id

\* C28 (trailing stop move): the manager submits a new stop or a fallback
\* stop only after a cancel of the old stop has succeeded, and when a stop
\* move has finished the old stop is not on the book together with a new one.
C28_ReplacementOnlyAfterCancel ==
    /\ \A i \in 1..Len(pm.sent) :
         pm.sent[i].call \in {"stop", "fallback"} =>
            \E j \in 1..(i - 1) : pm.sent[j].call = "cancel" /\ pm.sent[j].out = "ok"
    /\ pm.finished # "none" => ~StaleAndNewStop

\* C29: every stop order the manager submits in a stop move, new or
\* fallback, is for the quantity the position has on the exchange when the
\* order is submitted.
C29_StopQuantityFresh ==
    [][\A k \in 1..Len(pm'.sent) :
          (k > Len(pm.sent) /\ pm'.sent[k].call \in {"stop", "fallback"}) =>
              pm'.sent[k].amount = Abs(positions[PMPosition.symbol].contracts)]_vars

\* The price is in favour of the tracker's position by the activation
\* percentage from its entry price.
MovedInFavour(tracker, price) ==
    /\ tracker.entry_price # 0
    /\ IF tracker.is_long
       THEN price * 100 >= tracker.entry_price * (100 + TrailingActivationPercent)
       ELSE price * 100 <= tracker.entry_price * (100 - TrailingActivationPercent)

\* Trailing is active for a position whose observed price has gone back
\* behind the activation level in a later iteration.
C30_Witness ==
    /\ pm.cycle = 2
    /\ pm.observed
    /\ pm.trackers[PMPosition.symbol].exists
    /\ pm.trackers[PMPosition.symbol].trailing_activated
    /\ ~MovedInFavour(pm.trackers[PMPosition.symbol], pm.current_price)

\* C30: a tracker's trailing_activated becomes true only in a step that
\* observes a price in favour of the position by the activation percentage
\* from entry (so the tracker's best price has reached that level whenever it
\* is true), and once true it stays true in every step that keeps the tracker,
\* whatever price is observed.
C30_ActivationSticky ==
    /\ [](\A s \in Symbols :
            (pm.trackers[s].exists /\ pm.trackers[s].trailing_activated) =>
                MovedInFavour(pm.trackers[s],
                              IF pm.trackers[s].is_long THEN pm.trackers[s].highest_price
                              ELSE pm.trackers[s].lowest_price))
    /\ [][\A s \in Symbols :
            /\ (~pm.trackers[s].trailing_activated /\ pm'.trackers[s].trailing_activated) =>
                    MovedInFavour(pm'.trackers[s], pm'.current_price)
            /\ (pm.trackers[s].exists /\ pm.trackers[s].trailing_activated
                    /\ pm'.trackers[s].exists) =>
                    pm'.trackers[s].trailing_activated]_vars

\* C32: when an iteration of the trading loop begins, no tracker is left
\* for a symbol without a position on the exchange, and the step that takes
\* up a position of the snapshot leaves a tracker for its symbol.
C32_TrackerFollowsSnapshot ==
    [][/\ pm'.cycle = pm.cycle + 1 =>
            \A s \in Symbols : pm'.trackers[s].exists => positions[s].contracts # 0
       /\ pm.pc = "ticker" => pm'.trackers[PMPosition.symbol].exists]_vars

\* The take-profit timer of the position at hand has run for the timeout,
\* by the clock and the tracker.
TimerExpired ==
    /\ pm.observed
    /\ pm.trackers[PMPosition.symbol].tp_reached_time # NoneVal
    /\ pm.now - pm.trackers[PMPosition.symbol].tp_reached_time >= TpTimeoutSeconds

\* C9 (as claimed): when the iteration is over for a position whose take-
\* profit timer has run for the timeout, a market order closing it has been
\* submitted and its take-profit order is no longer open.
C9_Original ==
    (pm.pc = "idle" /\ TimerExpired) =>
        /\ PMSent("market") # <<>>
        /\ FindTakeProfit(PMPosition.symbol, OpenOrders) = NoneVal

C9_Witness ==
    /\ pm.pc = "idle"
    /\ TimerExpired
    /\ Len(PMSent("market")) = 1
    /\ PMSent("market")[1].out = "ok"
    /\ Len(PMSent("cancel_tp")) = 1
    /\ PMSent("cancel_tp")[1].out = "ok"
    /\ FindTakeProfit(PMPosition.symbol, OpenOrders) = NoneVal
    /\ positions[PMPosition.symbol].contracts = 0
    /\ pm.result.tp_timeouts = 1

\* C9 (amended): when the iteration is over for a position whose take-profit
\* timer has run for the timeout, exactly one market order has been submitted
\* for it, on the closing side and for the position's quantity.  If the
\* exchange accepted it, the cancellation of the take-profit order has been
\* tried once, the order being gone if that succeeded, and one tp_timeout is
\* counted; if it raised, no cancellation was tried, none is counted and the
\* timer is kept; if it was refused the take-profit order is still open.
C9_ForcedCloseOnTimeout ==
    (pm.pc = "idle" /\ TimerExpired) =>
        LET s == PMPosition.symbol
            closes == PMSent("market")
            cancels == PMSent("cancel_tp")
        IN /\ pm.due
           /\ Len(closes) = 1
           /\ closes[1].side = OppositeSide(pm.trackers[s].is_long)
           /\ closes[1].amount = GetPositionQty(PMPosition)
           /\ Applied(closes[1].out) => positions[s].contracts = 0
           /\ IF closes[1].out = "ok"
              THEN /\ Len(cancels) = 1
                   /\ pm.result.tp_timeouts = 1
                   /\ cancels[1].out = "ok" => FindTakeProfit(s, OpenOrders) = NoneVal
              ELSE /\ cancels = <<>>
                   /\ pm.result.tp_timeouts = 0
                   /\ closes[1].out = "fail" => FindTakeProfit(s, OpenOrders) # NoneVal


-----------------------------------------------------------------------------
(* core/calculator.py: floor_to_step.                                       *)
(*                                                                         *)
(* Decimal values keep 28 significant digits, more than an integer of the  *)
(* model holds, so a Decimal is written [int |-> n, nines |-> k]: the      *)
(* integer n when k = 0, and n + 1 - 10^(-k) when k > 0 (n followed by k   *)
(* decimal nines).  A step size is [sign |-> s, places |-> j]: s * 10^(-j).*)

MaxInt == 3          \* largest integer part of a value
MaxNines == 20       \* most decimal nines of a value
MaxPlaces == 2       \* most decimal places of a step size

DOUBLE_MANT_DIG == 53    \* sys.float_info.mant_dig: bits of a float's mantissa

RECURSIVE Pow10(_)
Pow10(k) == IF k = 0 THEN 1 ELSE 10 * Pow10(k - 1)

RECURSIVE BitLength(_)
BitLength(m) == IF m = 0 THEN 0 ELSE 1 + BitLength(m \div 2)

\* floor(k * log2(10)): 10^(-k) lies in [2^(-b-1), 2^(-b)) for this b
Log2Pow10(k) == (k * 3322) \div 1000

DecimalValues == [int : (0 - 2)..MaxInt, nines : 0..MaxNines]

StepSizes == [sign : {0 - 1, 0, 1}, places : 0..MaxPlaces]

\* value / step_size: dividing by a power of ten moves the decimal point
\* and keeps every digit
DecimalQuotient(value, step_size) ==
    IF value.nines > step_size.places
    THEN [int   |-> (value.int + 1) * Pow10(step_size.places) - 1,
          nines |-> value.nines - step_size.places]
    ELSE [int   |-> (value.int + 1) * Pow10(step_size.places)
                    - Pow10(step_size.places - value.nines),
          nines |-> 0]

\* float(q) is the integer above q: q is closer to q.int + 1 than half the
\* spacing of the doubles just below it
FloatRoundsUp(q) ==
    LET e == IF q.int >= 0 THEN BitLength(q.int) ELSE BitLength(0 - (q.int + 1))
    IN  /\ q.nines > 0
        /\ q.int # 0 - 1
        /\ DOUBLE_MANT_DIG + 1 - e <= Log2Pow10(q.nines)

\* math.floor(float(q))
FloorOfFloat(q) == IF FloatRoundsUp(q) THEN q.int + 1 ELSE q.int

\* floor_to_step: the number of steps of the result, or the error raised
FloorToStep(value, step_size) ==
    IF step_size.sign <= 0
    THEN [raised |-> "CalculatorError", steps |-> NoneVal]
    ELSE [raised |-> "", steps |-> FloorOfFloat(DecimalQuotient(value, step_size))]

\* steps * step_size <= value: q.int is the largest integer that is at most
\* q = value / step_size
AtMostValue(steps, value, step_size) ==
    steps <= DecimalQuotient(value, step_size).int

\* value - steps * step_size < step_size: q - steps < 1
WithinOneStep(steps, value, step_size) ==
    DecimalQuotient(value, step_size).int <= steps

FloorCall(value, step_size) ==
    [fn |-> "floor_to_step", pc |-> "call", value |-> value,
     step_size |-> step_size, raised |-> "", steps |-> NoneVal]

FloorToStepReturn ==
    /\ calc # Idle
    /\ calc.fn = "floor_to_step"
    /\ calc.pc = "call"
    /\ LET r == FloorToStep(calc.value, calc.step_size)
       IN  calc' = [calc EXCEPT !.pc = "done", !.raised = r.raised, !.steps = r.steps]
    /\ UNCHANGED <<exVars, retry, entry, sync, pm, loop, gateway>>

InitFloor ==
    /\ positions = NoPositions
    /\ orders = <<>>
    /\ nextId = 1
    /\ markets = [s \in Symbols |-> 1]
    /\ retry = Idle
    /\ entry = Idle
    /\ sync = Idle
    /\ pm = Idle
    /\ loop = Idle
    /\ gateway = Idle
    /\ \E value \in DecimalValues, step_size \in StepSizes :
         calc = FloorCall(value, step_size)

NextFloor == FloorToStepReturn

SpecFloor == InitFloor /\ [][NextFloor]_vars

\* C14: for every value and every step size > 0 the result of floor_to_step
\* is at most the value, is a whole number of steps and is less than one
\* step below the value; for a step size <= 0 it raises the invalid-step
\* error.  (The result is steps * step_size, so it is a multiple by
\* construction.)
C14_FloorToStep ==
    (calc # Idle /\ calc.fn = "floor_to_step" /\ calc.pc = "done") =>
        IF calc.step_size.sign > 0
        THEN /\ calc.raised = ""
             /\ AtMostValue(calc.steps, calc.value, calc.step_size)
             /\ WithinOneStep(calc.steps, calc.value, calc.step_size)
        ELSE calc.raised = "CalculatorError"


-----------------------------------------------------------------------------
(* core/calculator.py: calculate_position_size.                             *)
(*                                                                         *)
(* The balance is [units |-> b, nines |-> k]: b * (1 - 10^(-k)), which is  *)
(* b when k = 0 and b just short of itself otherwise (9.9999...9 for b =   *)
(* 10).  Percentages, prices and the leverage are integers.  A quantity is *)
(* a fraction [num, den, nines]: (num / den) * (1 - 10^(-nines)); Decimal  *)
(* carries 28 digits, so the products are exact and a quotient is off by   *)
(* less than a float can see.  The result is a number of steps.            *)

MaxBalance == 2      \* largest balance, in units
MaxPrice == 3        \* largest entry or stop price
MaxLeverage == 2     \* largest leverage

\* nines that a float drops: 10^(-k) is below half the spacing 2^(-53)
BalanceNines == {0} \cup {k \in 1..MaxNines : Log2Pow10(k) >= DOUBLE_MANT_DIG + 1}

SizeArgs ==
    [balance : [units : (0 - 1)..MaxBalance, nines : BalanceNines],
     risk_percent : {0 - 1, 0, 50, 100},
     entry_price : 0..MaxPrice,
     stoploss_price : 0..MaxPrice,
     step_size : StepSizes,
     leverage : (0 - 1)..MaxLeverage,
     max_position_percent : {0 - 10, 0, 10, 100}]

\* the worked example: 10000 USDT, 1 %, 50000 / 49000, step 0.001, 10x, 10 %
ExampleArgs ==
    [balance |-> [units |-> 10000, nines |-> 0], risk_percent |-> 1,
     entry_price |-> 50000, stoploss_price |-> 49000,
     step_size |-> [sign |-> 1, places |-> 3],
     leverage |-> 10, max_position_percent |-> 10]

\* raw_qty_risk = balance * (risk_percent / 100) * leverage / distance
RawQtyRisk(a) ==
    [num |-> a.balance.units * a.risk_percent * a.leverage,
     den |-> 100 * Abs(a.entry_price - a.stoploss_price),
     nines |-> a.balance.nines]

\* max_qty_position = balance * (max_position_percent / 100) * leverage / entry_price
MaxQtyPosition(a) ==
    [num |-> a.balance.units * a.max_position_percent * a.leverage,
     den |-> 100 * a.entry_price,
     nines |-> a.balance.nines]

\* raw_qty_risk > max_qty_position, both being multiples of the positive balance
RiskExceedsLimit(a) ==
    a.risk_percent * a.leverage * a.entry_price
        > a.max_position_percent * a.leverage * Abs(a.entry_price - a.stoploss_price)

RawQty(a) == IF RiskExceedsLimit(a) THEN MaxQtyPosition(a) ELSE RawQtyRisk(a)

\* math.floor(float(qty / step_size)): the float of the quotient is the float
\* of num * 10^places / den, the nines being beyond its 53 bits
FloorOfFloatQty(qty, step_size) ==
    (qty.num * Pow10(step_size.places)) \div qty.den

\* calculate_position_size: the steps returned (0 for Decimal("0")) and the
\* exception the except clause caught, if any
CalculatePositionSize(a) ==
    IF a.balance.units <= 0 THEN [steps |-> 0, caught |-> ""]
    ELSE IF a.entry_price <= 0 \/ a.stoploss_price <= 0 THEN [steps |-> 0, caught |-> ""]
    ELSE IF a.risk_percent <= 0 THEN [steps |-> 0, caught |-> ""]
    ELSE IF a.entry_price = a.stoploss_price THEN [steps |-> 0, caught |-> ""]
    ELSE IF a.step_size.sign <= 0 THEN [steps |-> 0, caught |-> "CalculatorError"]
    ELSE IF a.leverage = 0 THEN [steps |-> 0, caught |-> "InvalidOperation"]
    ELSE [steps |-> FloorOfFloatQty(RawQty(a), a.step_size), caught |-> ""]

SizeCall(a) ==
    [fn |-> "calculate_position_size", pc |-> "call", args |-> a,
     raised |-> "", caught |-> "", steps |-> NoneVal]

CalculatePositionSizeReturn ==
    /\ calc # Idle
    /\ calc.fn = "calculate_position_size"
    /\ calc.pc = "call"
    /\ LET r == CalculatePositionSize(calc.args)
       IN  calc' = [calc EXCEPT !.pc = "done", !.caught = r.caught, !.steps = r.steps]
    /\ UNCHANGED <<exVars, retry, entry, sync, pm, loop, gateway>>

InitSize ==
    /\ positions = NoPositions
    /\ orders = <<>>
    /\ nextId = 1
    /\ markets = [s \in Symbols |-> 1]
    /\ retry = Idle
    /\ entry = Idle
    /\ sync = Idle
    /\ pm = Idle
    /\ loop = Idle
    /\ gateway = Idle
    /\ \E a \in SizeArgs \cup {ExampleArgs} : calc = SizeCall(a)

NextSize == CalculatePositionSizeReturn

SpecSize == InitSize /\ [][NextSize]_vars

SizeDone == calc # Idle /\ calc.fn = "calculate_position_size" /\ calc.pc = "done"

\* the invalid inputs the contract names
InvalidSizeArgs(a) ==
    \/ a.balance.units <= 0
    \/ a.entry_price = a.stoploss_price
    \/ a.entry_price <= 0
    \/ a.risk_percent <= 0
    \/ a.step_size.sign <= 0

\* C15: calculate_position_size never returns a negative quantity and never
\* raises; for every invalid input (balance <= 0, entry = stop, entry <= 0,
\* risk percent <= 0, step <= 0) it returns exactly 0.
C15_SizeNeverNegative ==
    SizeDone =>
        /\ calc.raised = ""
        /\ calc.steps >= 0
        /\ InvalidSizeArgs(calc.args) => calc.steps = 0

ValidSizeArgs(a) ==
    /\ a.balance.units > 0
    /\ a.risk_percent > 0
    /\ a.entry_price > 0
    /\ a.stoploss_price > 0
    /\ a.entry_price # a.stoploss_price
    /\ a.step_size.sign > 0
    /\ a.leverage >= 1
    /\ a.max_position_percent > 0

\* the largest whole number of steps that is at most qty
WholeSteps(qty, step_size) ==
    LET scaled == qty.num * Pow10(step_size.places)
    IN  IF qty.nines > 0 /\ scaled > 0 /\ scaled % qty.den = 0
        THEN scaled \div qty.den - 1
        ELSE scaled \div qty.den

\* min(rawQty, capQty); for valid inputs balance * leverage / 100 is a
\* positive factor of both
MinQty(a) ==
    IF a.risk_percent * a.entry_price
           <= a.max_position_percent * Abs(a.entry_price - a.stoploss_price)
    THEN RawQtyRisk(a) ELSE MaxQtyPosition(a)

\* C16: for valid inputs calculate_position_size returns
\* floorToStep(min(rawQty, capQty), step), so the result never exceeds
\* capQty; for the worked example it returns 0.200 (200 steps of 0.001).
C16_SizeFormula ==
    (SizeDone /\ ValidSizeArgs(calc.args)) =>
        /\ calc.steps = WholeSteps(MinQty(calc.args), calc.args.step_size)
        /\ calc.steps <= WholeSteps(MaxQtyPosition(calc.args), calc.args.step_size)
        /\ calc.args = ExampleArgs => calc.steps = 200


-----------------------------------------------------------------------------
(* core/risk_manager.py: DynamicRiskManager.calculate_optimal_leverage and  *)
(* determine_margin_mode.  Volatility, win rate and drawdown are whole      *)
(* percents, the trend strength is in tenths.                               *)

MaxLev == 6          \* largest leverage of a configuration

HIGH_VOLATILITY_THRESHOLD == 3    \* risk_manager.py:27
LOW_VOLATILITY_THRESHOLD == 1     \* risk_manager.py:28
GOOD_WIN_RATE == 60               \* risk_manager.py:29
BAD_WIN_RATE == 40                \* risk_manager.py:30
MAX_DRAWDOWN_PERCENT == 20        \* risk_manager.py:31
TREND_STRENGTH_THRESHOLD == 7     \* risk_manager.py:32, in tenths

Max(a, b) == IF a >= b THEN a ELSE b

\* DynamicRiskManager(base_leverage, min_leverage, max_leverage, enabled)
RiskManagers ==
    {m \in [base_leverage : 1..MaxLev, min_leverage : 1..MaxLev,
            max_leverage : 1..MaxLev, enabled : BOOLEAN] :
        m.min_leverage <= m.max_leverage}

\* RiskMetrics snapshots, at and on both sides of every threshold
RiskMetricsSet ==
    [volatility : {0, LOW_VOLATILITY_THRESHOLD, HIGH_VOLATILITY_THRESHOLD,
                   HIGH_VOLATILITY_THRESHOLD + 1},
     win_rate : {BAD_WIN_RATE - 1, BAD_WIN_RATE, GOOD_WIN_RATE, GOOD_WIN_RATE + 1},
     drawdown : {10, 11, MAX_DRAWDOWN_PERCENT, MAX_DRAWDOWN_PERCENT + 1},
     trend_strength : {TREND_STRENGTH_THRESHOLD, TREND_STRENGTH_THRESHOLD + 1},
     consecutive_losses : 1..3,
     total_trades : {9, 10}]

VolatilityAdjustment(self, metrics, leverage) ==
    IF metrics.volatility > HIGH_VOLATILITY_THRESHOLD
    THEN Max(leverage - 3, self.min_leverage)
    ELSE IF metrics.volatility < LOW_VOLATILITY_THRESHOLD
    THEN Min(leverage + 2, self.max_leverage)
    ELSE leverage

WinRateAdjustment(self, metrics, leverage) ==
    IF metrics.total_trades >= 10
    THEN IF metrics.win_rate < BAD_WIN_RATE
         THEN Max(leverage - 2, self.min_leverage)
         ELSE IF metrics.win_rate > GOOD_WIN_RATE
         THEN Min(leverage + 1, self.max_leverage)
         ELSE leverage
    ELSE leverage

DrawdownProtection(self, metrics, leverage) ==
    IF metrics.drawdown > MAX_DRAWDOWN_PERCENT
    THEN self.min_leverage
    ELSE IF 2 * metrics.drawdown > MAX_DRAWDOWN_PERCENT
    THEN Max(leverage - 2, self.min_leverage)
    ELSE leverage

ConsecutiveLossProtection(self, metrics, leverage) ==
    IF metrics.consecutive_losses >= 3
    THEN Max(leverage - 2, self.min_leverage)
    ELSE leverage

CalculateOptimalLeverage(self, metrics) ==
    IF ~self.enabled THEN self.base_leverage
    ELSE LET l1 == VolatilityAdjustment(self, metrics, self.base_leverage)
             l2 == WinRateAdjustment(self, metrics, l1)
             l3 == DrawdownProtection(self, metrics, l2)
             l4 == ConsecutiveLossProtection(self, metrics, l3)
         IN  Max(self.min_leverage, Min(l4, self.max_leverage))

AlwaysIsolatedLate(metrics) ==
    \/ metrics.drawdown > 10
    \/ metrics.volatility > HIGH_VOLATILITY_THRESHOLD
    \/ metrics.consecutive_losses >= 3

\* "Safety first: Always ISOLATED in these conditions"
AlwaysIsolated(metrics) ==
    \/ metrics.drawdown > 10
    \/ metrics.volatility > HIGH_VOLATILITY_THRESHOLD
    \/ metrics.consecutive_losses >= 2

DetermineMarginMode(self, metrics) ==
    IF ~self.enabled THEN "isolated"
    ELSE IF AlwaysIsolated(metrics) THEN "isolated"
    ELSE IF /\ metrics.trend_strength > TREND_STRENGTH_THRESHOLD
            /\ metrics.win_rate > GOOD_WIN_RATE
            /\ metrics.total_trades >= 10
    THEN "cross"
    ELSE "isolated"

RiskCall(fn, self, metrics) ==
    [fn |-> fn, pc |-> "call", self |-> self, metrics |-> metrics, result |-> NoneVal]

CalculateOptimalLeverageReturn ==
    /\ calc # Idle
    /\ calc.fn = "calculate_optimal_leverage"
    /\ calc.pc = "call"
    /\ calc' = [calc EXCEPT !.pc = "done",
                            !.result = CalculateOptimalLeverage(calc.self, calc.metrics)]
    /\ UNCHANGED <<exVars, retry, entry, sync, pm, loop, gateway>>

DetermineMarginModeReturn ==
    /\ calc # Idle
    /\ calc.fn = "determine_margin_mode"
    /\ calc.pc = "call"
    /\ calc' = [calc EXCEPT !.pc = "done",
                            !.result = DetermineMarginMode(calc.self, calc.metrics)]
    /\ UNCHANGED <<exVars, retry, entry, sync, pm, loop, gateway>>

InitRisk ==
    /\ positions = NoPositions
    /\ orders = <<>>
    /\ nextId = 1
    /\ markets = [s \in Symbols |-> 1]
    /\ retry = Idle
    /\ entry = Idle
    /\ sync = Idle
    /\ pm = Idle
    /\ loop = Idle
    /\ gateway = Idle
    /\ \E fn \in {"calculate_optimal_leverage", "determine_margin_mode"},
          self \in RiskManagers, metrics \in RiskMetricsSet :
         calc = RiskCall(fn, self, metrics)

NextRisk ==
    \/ CalculateOptimalLeverageReturn
    \/ DetermineMarginModeReturn

SpecRisk == InitRisk /\ [][NextRisk]_vars

LeverageDone == calc # Idle /\ calc.fn = "calculate_optimal_leverage" /\ calc.pc = "done"

\* C17: for every metrics snapshot and every configuration, dynamic
\* adjustment enabled or not, calculate_optimal_leverage returns a value
\* within [min_leverage, max_leverage].
C17_LeverageInRange ==
    LeverageDone =>
        /\ calc.self.min_leverage <= calc.result
        /\ calc.result <= calc.self.max_leverage

\* C18: whenever the drawdown exceeds the maximum allowed percentage, or
\* there are 3 or more consecutive losses, calculate_optimal_leverage
\* returns exactly min_leverage.
C18_HardClampToMinimum ==
    (/\ LeverageDone
     /\ \/ calc.metrics.drawdown > MAX_DRAWDOWN_PERCENT
        \/ calc.metrics.consecutive_losses >= 3) =>
        calc.result = calc.self.min_leverage

MarginModeDone == calc # Idle /\ calc.fn = "determine_margin_mode" /\ calc.pc = "done"

C19_Witness == MarginModeDone /\ calc.result = "cross"

\* C19: determine_margin_mode returns "cross" only when dynamic risk is
\* enabled, drawdown (at most 10 %), volatility (at most the high-volatility
\* threshold) and consecutive losses (fewer than 2) are all favourable, trend
\* strength and win rate both exceed their thresholds and at least 10 trades
\* are on record; in every other case it returns "isolated".
C19_CrossOnlyWhenFavourable ==
    MarginModeDone =>
        /\ calc.result \in {"cross", "isolated"}
        /\ calc.result = "cross" =>
             /\ calc.self.enabled
             /\ calc.metrics.drawdown <= 10
             /\ calc.metrics.volatility <= HIGH_VOLATILITY_THRESHOLD
             /\ calc.metrics.consecutive_losses < 2
             /\ calc.metrics.trend_strength > TREND_STRENGTH_THRESHOLD
             /\ calc.metrics.win_rate > GOOD_WIN_RATE
             /\ calc.metrics.total_trades >= 10


-----------------------------------------------------------------------------
(* main.py: trading_loop.  One step per call the iteration makes; the log   *)
(* lists the calls of the current iteration in order.  ghost_synchronizer   *)
(* is the pass of SpecSync, here with its result only: the error count it   *)
(* returns, or an exception that is not an ExchangeError and escapes it.    *)

MaxIterations == 2   \* iterations of the trading loop
MaxErrors == 2       \* largest error count a reconciliation pass reports
MaxSlots == 2        \* largest max_concurrent_positions
MaxScans == 2        \* scan limits tried in one iteration
MaxSignals == 2      \* signals one scan returns after filtering

\* def execute_atomic_entry(exchange, symbol, side, quantity, stoploss_price,
\*                          takeprofit_price=None, leverage=10)
ExecuteAtomicEntryParams ==
    {"exchange", "symbol", "side", "quantity", "stoploss_price",
     "takeprofit_price", "leverage"}

\* keywords of the call in the trading loop
EntryCallKeywords ==
    {"exchange", "symbol", "side", "quantity", "stoploss_price",
     "takeprofit_price", "leverage", "margin_mode"}

\* Python binds a call's keywords to parameters, or raises TypeError
CallBinds(keywords, params) == keywords \subseteq params

SyncBlocksEntryNever(errors) == FALSE

\* if sync_result['errors'] > 0: ... continue
SyncBlocksEntry(errors) == errors > 0

LoopIteration(n, position_manager, max_concurrent_positions) ==
    [pc |-> "start", iteration |-> n, position_manager |-> position_manager,
     max_concurrent_positions |-> max_concurrent_positions,
     sync_errors |-> NoneVal, active_symbols |-> {}, available_slots |-> 0,
     positions_entered |-> 0, scans |-> 0, signals |-> <<>>, submitted |-> 0,
     attempts |-> <<>>, log |-> <<>>]

Logged(call) == [loop EXCEPT !.log = Append(@, call)]

\* STEP 0: fetch_top_symbols
LoopFetchTopSymbols ==
    /\ loop # Idle
    /\ loop.pc = "start"
    /\ \E out \in CallOutcomes :
         loop' = [Logged("fetch_top_symbols") EXCEPT
                     !.pc = IF out = "ok" THEN "sync" ELSE "except"]
    /\ UNCHANGED <<exVars, retry, entry, sync, pm, calc, gateway>>

\* STEP 1: ghost_synchronizer and the test of its error count
LoopGhostSynchronizer ==
    /\ loop # Idle
    /\ loop.pc = "sync"
    /\ \/ \E errors \in 0..MaxErrors :
            loop' = [Logged("ghost_synchronizer") EXCEPT
                        !.sync_errors = errors,
                        !.pc = IF SyncBlocksEntry(errors) THEN "sleep" ELSE "summary"]
       \/ loop' = [Logged("ghost_synchronizer") EXCEPT !.pc = "except"]
    /\ UNCHANGED <<exVars, retry, entry, sync, pm, calc, gateway>>

\* get_position_summary, safety.py:466-502: the symbols of the positions
\* fetched, or nothing at all if one of its two fetches raised.
SummarySymbols(out) == IF out = "ok" THEN HeldSymbols ELSE {}

\* STEP 2: get_position_summary (which catches every exception), the
\* active symbols and the count of free slots
LoopPositionSummary ==
    /\ loop # Idle
    /\ loop.pc = "summary"
    /\ \E out \in CallOutcomes :
         LET active_symbols == SummarySymbols(out)
         IN loop' = [Logged("get_position_summary") EXCEPT
                        !.active_symbols = active_symbols,
                        !.available_slots = loop.max_concurrent_positions
                                              - Cardinality(active_symbols),
                        !.pc = IF active_symbols # {} /\ loop.position_manager
                               THEN "trailing" ELSE "slots"]
    /\ UNCHANGED <<exVars, retry, entry, sync, pm, calc, gateway>>

\* STEP 3: fetch_positions, fetch_open_orders, process_trailing_stops
LoopTrailingStops ==
    /\ loop # Idle
    /\ loop.pc = "trailing"
    /\ \E out \in CallOutcomes :
         loop' = [Logged("process_trailing_stops") EXCEPT
                     !.pc = IF out = "ok" THEN "slots" ELSE "except"]
    /\ UNCHANGED <<exVars, retry, entry, sync, pm, calc, gateway>>

\* STEP 4: portfolio full -> continue
LoopCheckSlots ==
    /\ loop # Idle
    /\ loop.pc = "slots"
    /\ loop' = IF loop.available_slots <= 0
               THEN [loop EXCEPT !.pc = "sleep"]
               ELSE [loop EXCEPT !.pc = "scan", !.scans = MaxScans]
    /\ UNCHANGED <<exVars, retry, entry, sync, pm, calc, gateway>>

\* What scan_market can return: at most MaxSignals signals, one per symbol.
ScanResults ==
    {signals \in UNION {[1..n -> Symbols] : n \in 0..Min(MaxSignals, Cardinality(Symbols))} :
        \A i, j \in 1..Len(signals) : i # j => signals[i] # signals[j]}

\* STEP 5: for scan_limit in scan_limits: scan_market, filter
LoopScanMarket ==
    /\ loop # Idle
    /\ loop.pc = "scan"
    /\ IF loop.scans = 0 \/ loop.positions_entered >= loop.available_slots
       THEN loop' = [loop EXCEPT !.pc = "end"]
       ELSE \/ \E signals \in ScanResults :
                 LET filtered_signals ==
                         SelectSeq(signals, LAMBDA symbol : symbol \notin loop.active_symbols)
                 IN loop' = [Logged("scan_market") EXCEPT
                                !.scans = @ - 1,
                                !.signals = filtered_signals,
                                !.pc = IF filtered_signals = <<>> THEN "scan" ELSE "enter"]
            \/ loop' = [Logged("scan_market") EXCEPT !.pc = "except"]
    /\ UNCHANGED <<exVars, retry, entry, sync, pm, calc, gateway>>

\* A call of execute_atomic_entry: its symbol, the positions open on the
\* exchange and the entries this iteration has made when it is called.
EntryAttempt(symbol) ==
    [symbol |-> symbol, open |-> Cardinality(HeldSymbols),
     held |-> symbol \in HeldSymbols, entered |-> loop.positions_entered]

\* STEP 6: for signal in filtered_signals: price and balance tests, quantity,
\* execute_atomic_entry
LoopEnterPosition ==
    /\ loop # Idle
    /\ loop.pc = "enter"
    /\ IF loop.signals = <<>> \/ loop.positions_entered >= loop.available_slots
       THEN loop' = [loop EXCEPT !.pc = "scan", !.signals = <<>>]
       ELSE \E case \in {"bad_price", "no_balance", "zero_quantity", "raises", "enter"} :
              CASE case \in {"bad_price", "zero_quantity"} ->
                     loop' = [loop EXCEPT !.signals = Tail(@)]
                [] case = "no_balance" ->
                     loop' = [loop EXCEPT !.pc = "scan", !.signals = <<>>]
                [] case = "raises" ->
                     loop' = [loop EXCEPT !.pc = "except"]
                [] case = "enter" ->
                     LET signal == Head(loop.signals)
                         called == [Logged("execute_atomic_entry") EXCEPT
                                       !.attempts = Append(@, EntryAttempt(signal))]
                     IN
                     IF CallBinds(EntryCallKeywords, ExecuteAtomicEntryParams)
                     THEN \E success \in BOOLEAN :
                            loop' = [called EXCEPT
                                        !.signals = Tail(@),
                                        !.submitted = @ + 1,
                                        !.positions_entered =
                                            IF success THEN @ + 1 ELSE @,
                                        !.active_symbols =
                                            IF success THEN @ \cup {signal} ELSE @]
                     ELSE loop' = [called EXCEPT !.pc = "except"]
    /\ UNCHANGED <<exVars, retry, entry, sync, pm, calc, gateway>>

\* the end of the iteration (normal, continue, or except Exception) and the
\* start of the next one
LoopNextIteration ==
    /\ loop # Idle
    /\ loop.pc \in {"end", "sleep", "except"}
    /\ loop.iteration < MaxIterations
    /\ loop' = LoopIteration(loop.iteration + 1, loop.position_manager,
                             loop.max_concurrent_positions)
    /\ UNCHANGED <<exVars, retry, entry, sync, pm, calc, gateway>>

InitLoop ==
    /\ \E held \in SUBSET Symbols :
         positions = [s \in Symbols |->
                        IF s \in held THEN ApplyFill(Flat, "buy", 1, BasePx) ELSE Flat]
    /\ orders = <<>>
    /\ nextId = 1
    /\ markets = [s \in Symbols |-> 1]
    /\ retry = Idle
    /\ entry = Idle
    /\ sync = Idle
    /\ pm = Idle
    /\ calc = Idle
    /\ gateway = Idle
    /\ \E position_manager \in BOOLEAN, max_concurrent_positions \in 1..MaxSlots :
         loop = LoopIteration(1, position_manager, max_concurrent_positions)

NextLoop ==
    \/ LoopFetchTopSymbols
    \/ LoopGhostSynchronizer
    \/ LoopPositionSummary
    \/ LoopTrailingStops
    \/ LoopCheckSlots
    \/ LoopScanMarket
    \/ LoopEnterPosition
    \/ LoopNextIteration

SpecLoop == InitLoop /\ [][NextLoop]_vars

\* positions in the log of the iteration at which an entry was attempted
EntryAttempts == {i \in DOMAIN loop.log : loop.log[i] = "execute_atomic_entry"}

C20_Witness ==
    /\ loop # Idle
    /\ loop.iteration = 2
    /\ loop.pc = "sleep"
    /\ loop.sync_errors > 0
    /\ loop.log = <<"fetch_top_symbols", "ghost_synchronizer">>

\* C20: in every iteration of the trading loop the reconciliation has run
\* before any entry is attempted, and if it reported a non-zero error count
\* no entry is attempted and no market entry is submitted in that iteration.
C20_SyncBeforeEntry ==
    loop # Idle =>
        /\ \A i \in EntryAttempts :
             \E j \in 1..(i - 1) : loop.log[j] = "ghost_synchronizer"
        /\ (EntryAttempts # {} \/ loop.submitted > 0) => loop.sync_errors = 0
        /\ loop.sync_errors > 0 => (EntryAttempts = {} /\ loop.submitted = 0)

\* The trading loop called execute_atomic_entry for a symbol that had an open
\* position, with as many positions open as the portfolio may hold, after
\* get_position_summary swallowed a failed fetch and reported no position.
C36_FullPortfolioEntered ==
    /\ loop # Idle
    /\ loop.pc = "except"
    /\ loop.max_concurrent_positions = 1
    /\ loop.active_symbols = {}
    /\ loop.available_slots = 1
    /\ Len(loop.attempts) = 1
    /\ loop.attempts[1].held
    /\ loop.attempts[1].open = 1
    /\ loop.attempts[1].entered = 0

-----------------------------------------------------------------------------
(* execute_atomic_entry called again after a call has ended, as the         *)
(* trading loop does on its next signal or iteration (main.py:383-433):     *)
(* SpreadTooWideError, StaleDataError and ExchangeError are caught per      *)
(* signal, every other exception by the except Exception of the iteration,  *)
(* and the loop goes on.  The caller's record is kept in loop: the number   *)
(* of calls made and whether one of them ended in a critical failure.       *)

MaxEntryCalls == 2   \* calls of execute_atomic_entry made one after the other

\* Lines 427-445: emergency_close_position returned False ("CRITICAL:
\* EMERGENCY CLOSE FAILED"), then the ExecutionError of line 447.
CriticalFailure(e) ==
    /\ e.pc = "raised"
    /\ e.error = "ExecutionError"
    /\ SentCalls(e, "close") # {}
    /\ ~e.closed

EntryCaller(calls, critical) == [pc |-> "caller", calls |-> calls, critical |-> critical]

\* Lines 289-300: a call starts from a fresh result; nothing of an earlier
\* call is consulted, by the function or by the loop that calls it.
EntryCallAgain ==
    /\ loop.pc = "caller"
    /\ EntryDone
    /\ loop.calls < MaxEntryCalls
    /\ \E sig \in Signals : entry' = EntryInit(sig)
    /\ loop' = EntryCaller(loop.calls + 1, loop.critical \/ CriticalFailure(entry))
    /\ UNCHANGED <<exVars, retry, sync, pm, calc, gateway>>

InitReentry ==
    /\ positions = NoPositions
    /\ orders = <<>>
    /\ nextId = 1
    /\ markets = [s \in Symbols |-> 1]
    /\ retry = Idle
    /\ \E sig \in Signals : entry = EntryInit(sig)
    /\ sync = Idle
    /\ pm = Idle
    /\ calc = Idle
    /\ loop = EntryCaller(1, FALSE)
    /\ gateway = Idle

NextReentry ==
    \/ EntryStart
    \/ EntryCheckSpread
    \/ EntryMarketOrder
    \/ EntryVerifyFill
    \/ EntryPlaceStop
    \/ EntryPlaceTakeProfit
    \/ EntryEmergencyClose
    \/ EntryCallAgain

SpecReentry == InitReentry /\ [][NextReentry]_vars

-----------------------------------------------------------------------------
(* strategy/manager.py: the take-profit timer of _check_tp_timeout over    *)
(* more iterations of the trading loop than SpecPM runs, for one position  *)
(* of one lot with its stop and take-profit orders on a tick of 1.         *)

MaxTimerCycles == 3

TimerStartCycle == StartCycle(MaxTimerCycles)

InitTimer ==
    /\ markets = [s \in {EntrySymbol} |-> 1]
    /\ \E is_long \in BOOLEAN :
         LET side == OppositeSide(~is_long)
             sl == NewOrder(1, EntrySymbol, "STOP_MARKET", OppositeSide(is_long), 1,
                            InitialStopPrice(is_long, 1))
             tp == NewOrder(2, EntrySymbol, "TAKE_PROFIT_MARKET", OppositeSide(is_long), 1,
                            InitialTakeProfitPrice(is_long, 1))
         IN
         /\ positions = [NoPositions EXCEPT ![EntrySymbol] = ApplyFill(Flat, side, 1, BasePx)]
         /\ orders = <<sl, tp>>
         /\ nextId = 3
    /\ retry = Idle
    /\ entry = Idle
    /\ sync = Idle
    /\ pm = PMInit
    /\ calc = Idle
    /\ loop = Idle
    /\ gateway = Idle

NextTimer ==
    \/ TimerStartCycle
    \/ PMFetchTicker
    \/ PMForceClose
    \/ PMCancelTakeProfit
    \/ PMCancelOldStop
    \/ PMPlaceNewStop
    \/ PMPlaceFallback
    \/ ExchangeFill

SpecTimer == InitTimer /\ [][NextTimer]_vars


\* The tracker of the position SpecTimer follows.
TimerTracker == pm.trackers[EntrySymbol]

\* The iteration has observed a price that is off the level of the
\* position's take-profit order.
ObservedOffTrigger ==
    /\ pm.observed
    /\ TimerTracker.exists
    /\ FindTakeProfit(EntrySymbol, pm.open_orders) # NoneVal
    /\ TimerTracker.tp_level # 0
    /\ IF TimerTracker.is_long THEN pm.current_price < TimerTracker.tp_level
       ELSE pm.current_price > TimerTracker.tp_level

\* The first touch was at time 1 and the price went off the level at time 2,
\* before the timeout; the touch at time 3 starts the timer anew and closes
\* nothing, though the timeout has passed since the first touch.
C31_Witness ==
    /\ pm.timer = <<"start", "reset", "start">>
    /\ pm.cycle = 3
    /\ pm.now = 3
    /\ pm.now - 1 >= TpTimeoutSeconds
    /\ pm.observed
    /\ TimerTracker.tp_reached_time = 3
    /\ ~pm.due
    /\ PMSent("market") = <<>>

\* C31: an iteration that observes a price off the take-profit level leaves
\* the timer idle and closes nothing; a timer that starts, starts at the time
\* of the touch that starts it and closes nothing in that iteration; and a
\* forced close is sent only in an iteration for which the running timer,
\* started after the last reset, has run for the timeout.
C31_RetreatResetsTimer ==
    /\ [](ObservedOffTrigger =>
            /\ TimerTracker.tp_reached_time = NoneVal
            /\ ~pm.due
            /\ PMSent("market") = <<>>)
    /\ []((pm.observed /\ PMSent("market") # <<>>) => pm.due)
    /\ [](pm.due =>
            /\ TimerTracker.tp_reached_time # NoneVal
            /\ pm.now - TimerTracker.tp_reached_time >= TpTimeoutSeconds
            /\ pm.timer # <<>>
            /\ pm.timer[Len(pm.timer)] = "start")
    /\ [][(TimerTracker.tp_reached_time = NoneVal /\ TimerTracker'.tp_reached_time # NoneVal) =>
            /\ TimerTracker'.tp_reached_time = pm'.now
            /\ ~pm'.due
            /\ pm'.timer = Append(pm.timer, "start")]_vars


-----------------------------------------------------------------------------
(* core/exchange.py: the symbol-metadata cache of SafeExchange: connect,   *)
(* _load_markets and get_market_info, with a clock.  The lifetime of the   *)
(* cache is MarketsCacheTtl clock steps.                                   *)

MarketsCacheTtl == 2     \* self._markets_cache_ttl (3600 s), in clock steps
MaxClock == 4            \* clock steps the model follows

\* time.time() when the gateway is constructed: far beyond the lifetime
\* counted from 0, the initial _last_markets_load.
Epoch == MarketsCacheTtl + 1

\* SafeExchange.__init__, lines 75-78.
GatewayInit ==
    [connected |-> FALSE, now |-> Epoch, last_markets_load |-> 0,
     served |-> NoneVal, error |-> "None"]

\* _load_markets, line 143.
CacheExpired(current_time, last_markets_load) ==
    (current_time - last_markets_load) > MarketsCacheTtl

\* connect, lines 80-128, with _load_markets, lines 137-146: the metadata is
\* loaded if the cache has outlived its lifetime; a failed load raises.
GatewayConnect ==
    /\ ~gateway.connected
    /\ \E out \in CallOutcomes, tick_size \in 0..MaxTick :
         IF ~CacheExpired(gateway.now, gateway.last_markets_load)
         THEN /\ gateway' = [gateway EXCEPT !.connected = TRUE, !.error = "None"]
              /\ UNCHANGED markets
         ELSE IF out = "fail"
         THEN /\ gateway' = [gateway EXCEPT !.connected = TRUE, !.error = "NetworkError"]
              /\ UNCHANGED markets
         ELSE /\ gateway' = [gateway EXCEPT !.connected = TRUE, !.error = "None",
                                            !.last_markets_load = gateway.now]
              /\ markets' = [s \in Symbols |-> tick_size]
    /\ UNCHANGED <<positions, orders, nextId, retry, entry, sync, pm, calc, loop>>

\* disconnect, lines 130-135.
GatewayDisconnect ==
    /\ gateway.connected
    /\ gateway' = [gateway EXCEPT !.connected = FALSE]
    /\ UNCHANGED <<exVars, retry, entry, sync, pm, calc, loop>>

\* Time passes.
GatewayTick ==
    /\ gateway.now < Epoch + MaxClock
    /\ gateway' = [gateway EXCEPT !.now = @ + 1]
    /\ UNCHANGED <<exVars, retry, entry, sync, pm, calc, loop>>

\* get_market_info, lines 148-163: the cached entry as it is, or
\* ExchangeError for a symbol the cache does not hold; served is the age of
\* the entry returned.
GatewayGetMarketInfo ==
    /\ \E symbol \in Symbols :
         gateway' = IF symbol \notin DOMAIN markets
                    THEN [gateway EXCEPT !.served = NoneVal, !.error = "ExchangeError"]
                    ELSE [gateway EXCEPT !.served = gateway.now - gateway.last_markets_load,
                                         !.error = "None"]
    /\ UNCHANGED <<exVars, retry, entry, sync, pm, calc, loop>>

InitMarkets ==
    /\ positions = NoPositions
    /\ orders = <<>>
    /\ nextId = 1
    /\ markets = [s \in {} |-> 0]
    /\ retry = Idle
    /\ entry = Idle
    /\ sync = Idle
    /\ pm = Idle
    /\ calc = Idle
    /\ loop = Idle
    /\ gateway = GatewayInit

NextMarkets ==
    \/ GatewayConnect
    \/ GatewayDisconnect
    \/ GatewayTick
    \/ GatewayGetMarketInfo

SpecMarkets == InitMarkets /\ [][NextMarkets]_vars

\* C33: a metadata read never returns an entry loaded longer ago than the
\* lifetime of the cache.
C33_ReadWithinTtl ==
    gateway.served # NoneVal => gateway.served <= MarketsCacheTtl



-----------------------------------------------------------------------------
(* strategy/manager.py and main.py: the trackers of the Position Manager   *)
(* when a symbol's position is closed and another one is opened on it      *)
(* between two calls of process_trailing_stops.                            *)

MaxReopened == 1

\* main.py:322-426, STEP 6 of the iteration, after STEP 3 has run or has
\* been skipped: an entry on a symbol without position leaves a position at
\* the fill price with its stop order.  (A position opened by hand between
\* two iterations has the same effect.)
Reopen ==
    /\ pm.pc = "idle"
    /\ pm.cycle > 0
    /\ pm.reopened < MaxReopened
    /\ positions[EntrySymbol].contracts = 0
    /\ \E is_long \in BOOLEAN, price \in PriceRange :
         /\ positions' = [positions EXCEPT ![EntrySymbol] =
                             ApplyFill(Flat, OppositeSide(~is_long), 1, price)]
         /\ orders' = Append(orders,
                             NewOrder(nextId, EntrySymbol, "STOP_MARKET", OppositeSide(is_long), 1,
                                      IF is_long THEN price - 1 ELSE price + 1))
         /\ nextId' = nextId + 1
    /\ pm' = [pm EXCEPT !.reopened = @ + 1]
    /\ UNCHANGED <<markets, calc, loop, retry, entry, sync, gateway>>

NextReopen ==
    \/ PMStartCycle
    \/ PMFetchTicker
    \/ PMForceClose
    \/ PMCancelTakeProfit
    \/ PMCancelOldStop
    \/ PMPlaceNewStop
    \/ PMPlaceFallback
    \/ ExchangeFill
    \/ Reopen

SpecReopen == InitPM /\ [][NextReopen]_vars

\* The tracker of the position at hand carries that position's entry price
\* and side.
TrackerOfPosition ==
    /\ pm.trackers[PMPosition.symbol].entry_price = PMPosition.entryPrice
    /\ pm.trackers[PMPosition.symbol].is_long = (GetPositionSide(PMPosition) = "LONG")

\* The manager evaluated a short position opened at 11 with the tracker of
\* the long position opened at 10 that was closed before.
C37_StaleTrackerUsed ==
    /\ pm.observed
    /\ pm.cycle = 2
    /\ pm.reopened = 1
    /\ PMPosition.entryPrice = BasePx + 1
    /\ GetPositionSide(PMPosition) = "SHORT"
    /\ pm.trackers[EntrySymbol].entry_price = BasePx
    /\ pm.trackers[EntrySymbol].is_long

\* C37: whenever the Position Manager evaluates a position, the tracker it
\* uses carries the entry price and side of that currently open position; a
\* tracker built for an earlier position on the symbol is never reused.
C37_TrackerOfOpenPosition ==
    pm.observed => TrackerOfPosition


-----------------------------------------------------------------------------
(* strategy/manager.py: the forced close of _check_tp_timeout when the     *)
(* exchange executes the position's take-profit or stop order after the    *)
(* iteration has taken its position snapshot.                              *)

\* The exchange executes an open trigger order whose price the market has
\* passed while _check_tp_timeout is about to send its market order
\* (manager.py:374-385); the order is reduce-only.
ExchangeFillInCycle ==
    /\ pm.pc = "tp_close"
    /\ \E k \in 1..Len(orders) :
         LET order == orders[k]
             pos == positions[order.symbol]
             filled == ReduceOnlyQty(pos, order.side, order.amount)
         IN
         /\ order.status = "open"
         /\ Triggered(order, pm.current_price)
         /\ filled > 0
         /\ orders' = SelectSeq(orders, LAMBDA o : o.id # order.id)
         /\ positions' = [positions EXCEPT ![order.symbol] =
                             ApplyFill(pos, order.side, filled, order.stopPrice)]
    /\ UNCHANGED <<pm, nextId, markets, calc, loop, retry, entry, sync, gateway>>

NextRace ==
    \/ PMStartCycle
    \/ PMFetchTicker
    \/ PMForceClose
    \/ PMCancelTakeProfit
    \/ PMCancelOldStop
    \/ PMPlaceNewStop
    \/ PMPlaceFallback
    \/ ExchangeFill
    \/ ExchangeFillInCycle

SpecRace == InitPM /\ [][NextRace]_vars

\* The forced market order of the iteration was executed by the exchange.
ForcedCloseExecuted ==
    /\ pm.pc = "tp_close"
    /\ pm'.pc # "tp_close"
    /\ positions' # positions

\* C39: a take-profit-timeout forced close never reverses or increases
\* exposure: after it the symbol's net position is zero, even if the
\* take-profit or stop order fills between the iteration's position snapshot
\* and the forced market order.
C39_ForcedCloseLeavesFlat ==
    [][ForcedCloseExecuted => positions'[PMPosition.symbol].contracts = 0]_vars


-----------------------------------------------------------------------------
(* core/safety.py and main.py: ghost_synchronizer run again by the next    *)
(* iteration of the trading loop, right after a pass that returned         *)
(* all_synced, with nothing changed on the exchange in between.            *)

MaxPasses == 2

\* main.py:232-239: the next iteration calls ghost_synchronizer again.
SyncRunAgain ==
    /\ sync.pc = "returned"
    /\ sync.result.all_synced
    /\ sync.pass < MaxPasses
    /\ sync' = [SyncInit EXCEPT !.pass = sync.pass + 1]
    /\ UNCHANGED <<exVars, calc, loop, retry, entry, pm, gateway>>

NextTwice ==
    \/ SyncFetchPositions
    \/ SyncFetchOrders
    \/ SyncNextPosition
    \/ SyncCancelStale
    \/ SyncCreateStop
    \/ SyncVerifyStop
    \/ SyncRunAgain

SpecTwice == InitSync /\ [][NextTwice]_vars

\* C40: reconciliation is idempotent: a pass run right after a pass that
\* returned all_synced, with no change on the exchange in between, cancels
\* no order and submits no order, and, its own fetches answering, reports
\* zero missing_sl_fixed, zero qty_mismatch_fixed and zero errors.
C40_SecondPassDoesNothing ==
    sync.pass > 1 =>
        /\ sync.sent = <<>>
        /\ sync.result.missing_sl_fixed = 0
        /\ sync.result.qty_mismatch_fixed = 0
        /\ InitialFetchesSucceeded => sync.result.errors = 0


=============================================================================
